---- MODULE Spec2Model ----
(***************************************************************************)
(* A model of polarhive/timetolive: the PESU session client                *)
(* (src/scraper.py, PESUTimetableScraper) and the schedule parser          *)
(* (src/parser.py).                                                        *)
(*                                                                         *)
(* Spec       the life of one PESUTimetableScraper: login, explicit        *)
(*            context preparation, fetch_timetable and logout, each a      *)
(*            whole handler run against nondeterministic portal replies.   *)
(* SpecParse  one call of build_schedule, parse_admin_html or              *)
(*            fetch_timetable on arguments and admin pages drawn from      *)
(*            bounded sets, by a logged-in client.                         *)
(***************************************************************************)
EXTENDS Integers, Sequences, FiniteSets, TLC

(***************************************************************************)
(* Python values.  None is a sentinel; "" is the empty string.  A value is *)
(* truthy, in the sense of `if x:` / `x or y`, when it is neither.         *)
(***************************************************************************)
None == "None"

Truthy(x) == x # None /\ x # ""

PyOr(a, b) == IF Truthy(a) THEN a ELSE b

\* F applied to the value of v, v evaluated once (a local variable assignment)
With(v, F(_)) == CHOOSE r \in {F(x) : x \in {v}} : TRUE

(***************************************************************************)
(* Exception kinds.  HTTPError, ConnectionError and Timeout are            *)
(* requests.RequestException subclasses; OSError stands for any exception  *)
(* session.get can raise that is not one (requests raises OSError itself   *)
(* when the CA bundle path is invalid).                                    *)
(***************************************************************************)
RequestExceptions == {"HTTPError", "ConnectionError", "Timeout"}

TransportErrors == {"ConnectionError", "Timeout", "OSError"}

IsRequestException(k) == k \in RequestExceptions

(***************************************************************************)
(* The cookie jar of requests.Session, reduced to the cookies the code     *)
(* reads: XSRF-TOKEN, CSRF-TOKEN and the session cookie (JSESSIONID or     *)
(* SESSION).  A response's Set-Cookie effect is one of SetCookieChoices.   *)
(***************************************************************************)
EmptyJar == [xsrf |-> None, csrf |-> None, sess |-> FALSE]

SetCookieChoices == {"none", "xsrf", "csrf", "sess"}

SetCookies(jar, setc) ==
  CASE setc = "xsrf"  -> [jar EXCEPT !.xsrf = "c1"]
    [] setc = "csrf"  -> [jar EXCEPT !.csrf = "c2"]
    [] setc = "sess"  -> [jar EXCEPT !.sess = TRUE]
    [] setc = "clear" -> EmptyJar
    [] OTHER          -> jar

\* self.session.cookies.get("XSRF-TOKEN") or self.session.cookies.get("CSRF-TOKEN")
CookieCsrf(jar) == PyOr(jar.xsrf, jar.csrf)

\* "JSESSIONID" in cookies or "SESSION" in cookies
HasSessionCookie(jar) == jar.sess

(***************************************************************************)
(* An HTML page as the session client reads it.                            *)
(*   inp    value of the first <input name="_csrf"> (None: no such input   *)
(*          or no value attribute)                                         *)
(*   meta   content of the first <meta> named _csrf, csrf-token, csrf      *)
(*   js     token of the first inline `_csrf = '...'` assignment           *)
(*   uuid   first UUID-shaped string of the page                           *)
(*   marks  which of the words login() looks for occur in the lower-cased  *)
(*          body                                                           *)
(*   form   the login form: whether one is found, the value of its first   *)
(*          _csrf input (None: no such input before the others), and its   *)
(*          other inputs in document order as <<name, value>>, a missing   *)
(*          name or value being ""                                         *)
(***************************************************************************)
NoForm == [present |-> FALSE, csrf |-> None, others |-> <<>>]

\* the inputs every login form has besides _csrf, as <<name, value>>
LoginFields == <<<<"j_username", "">>, <<"j_password", "">>>>

\* a login form as the portal serves it, with a _csrf input of value csrf
\* (None: without one)
LoginForm(csrf) == [present |-> TRUE, csrf |-> csrf, others |-> LoginFields]

BlankPage ==
  [inp |-> None, meta |-> <<None, None, None>>, js |-> None, uuid |-> None,
   marks |-> {}, form |-> NoForm]

Markers == {"j_username", "j_spring_security_check", "invalid", "login"}

\* _extract_csrf_token: first non-empty match wins; raises when none.
ExtractCsrfToken(p) ==
  IF Truthy(p.inp) THEN [ok |-> TRUE, val |-> p.inp]
  ELSE IF Truthy(p.meta[1]) THEN [ok |-> TRUE, val |-> p.meta[1]]
  ELSE IF Truthy(p.meta[2]) THEN [ok |-> TRUE, val |-> p.meta[2]]
  ELSE IF Truthy(p.meta[3]) THEN [ok |-> TRUE, val |-> p.meta[3]]
  ELSE IF p.js # None THEN [ok |-> TRUE, val |-> p.js]
  ELSE IF p.uuid # None THEN [ok |-> TRUE, val |-> p.uuid]
  ELSE [ok |-> FALSE, val |-> "AuthenticationError"]

(***************************************************************************)
(* An HTML document as BeautifulSoup presents it to _extract_csrf_token:   *)
(* its <input name="_csrf"> elements (each the value attribute, None when  *)
(* it has none) and its <meta> elements, both in document order, and what  *)
(* the two regular expressions find in the text.  soup.find returns the    *)
(* first matching element.                                                 *)
(***************************************************************************)
NoDoc == [inputs |-> <<>>, metas |-> <<>>, js |-> None, uuid |-> None]

MetaNames == <<"_csrf", "csrf-token", "csrf">>

\* soup.find("input", {"name": "_csrf"}) and its .get("value")
SoupFindInput(doc) == IF doc.inputs = <<>> THEN None ELSE doc.inputs[1]

\* soup.find("meta", {"name": meta_name}) and its .get("content")
SoupFindMeta(doc, name) ==
  IF \E i \in DOMAIN doc.metas : doc.metas[i].name = name
  THEN doc.metas[CHOOSE i \in DOMAIN doc.metas :
                   /\ doc.metas[i].name = name
                   /\ \A j \in 1..(i - 1) : doc.metas[j].name # name].content
  ELSE None

\* the page record of a document
PageOf(doc) ==
  [BlankPage EXCEPT
     !.inp = SoupFindInput(doc),
     !.meta = <<SoupFindMeta(doc, MetaNames[1]), SoupFindMeta(doc, MetaNames[2]),
                SoupFindMeta(doc, MetaNames[3])>>,
     !.js = doc.js,
     !.uuid = doc.uuid]

\* try: _extract_csrf_token(text) except AuthenticationError: None
ExtractCsrfOrNone(p) ==
  LET r == ExtractCsrfToken(p) IN IF r.ok THEN r.val ELSE None

(***************************************************************************)
(* One HTTP exchange as the code sees it: session.get/post either raises   *)
(* (exc) or returns a response with a status, a body, a final URL scheme   *)
(* (http: the final URL starts with "http://") and a Set-Cookie effect.    *)
(***************************************************************************)
Raises(k) ==
  [exc |-> k, status |-> 0, page |-> BlankPage, http |-> FALSE, setc |-> "none"]

Reply(st, p, h, c) ==
  [exc |-> None, status |-> st, page |-> p, http |-> h, setc |-> c]

NoReply == Raises("unused")

\* r.raise_for_status()
StatusFails(r) == r.status >= 400

(***************************************************************************)
(* The request log of one handler run: each entry is one session.get/post  *)
(* call with the CSRF token it carried (header or form field), whether the *)
(* session cookie was in the jar, and whether it failed (raised, or its    *)
(* raise_for_status check raised).                                         *)
(***************************************************************************)
Req(u, t, jar, f) ==
  [url |-> u, tok |-> t, sess |-> jar.sess, failed |-> f, data |-> {}]

\* marks: the words found in the body login() validated, when it got that far
Done(e, t, jar, rq) ==
  [exc |-> e, tok |-> t, jar |-> jar, reqs |-> rq, marks |-> {}]

Validated(d, marks) == [d EXCEPT !.marks = marks]

(***************************************************************************)
(* parser.py: the process-wide subject-mapping cache (_SUBJECT_MAPPING).   *)
(* A mapping is a set of <<code, label>> pairs; init says whether the      *)
(* global still holds None.                                                *)
(***************************************************************************)
NoMapping == [init |-> FALSE, map |-> {}]

FullMap == {<<"CS301", "ALGO">>}

\* The outcome of requests.get(_MAPPING_URL): raised, non-OK, or OK with a body.
MappingReplies ==
  {[exc |-> "ConnectionError", ok |-> FALSE, map |-> {}],
   [exc |-> None, ok |-> FALSE, map |-> {}],
   [exc |-> None, ok |-> TRUE, map |-> {}],
   [exc |-> None, ok |-> TRUE, map |-> FullMap]}

\* faulty variant: a failed fetch leaves the global at None
LoadSubjectMappingUnlessFailed(cache, rm) ==
  IF cache.init THEN cache
  ELSE IF rm.exc = None /\ rm.ok THEN [init |-> TRUE, map |-> rm.map]
  ELSE cache

\* _load_subject_mapping: the cache after the call (its value is the return).
LoadSubjectMapping(cache, rm) ==
  IF cache.init THEN cache
  ELSE IF rm.exc = None /\ rm.ok THEN [init |-> TRUE, map |-> rm.map]
  ELSE [init |-> TRUE, map |-> {}]

\* faulty variant: mapping.get(code, code)
MappingGetOrCode(m, code) ==
  IF \E pr \in m : pr[1] = code
  THEN (CHOOSE pr \in m : pr[1] = code)[2]
  ELSE code

\* mapping.get(code, "")
MappingGet(m, code) ==
  IF \E pr \in m : pr[1] = code
  THEN (CHOOSE pr \in m : pr[1] = code)[2]
  ELSE ""

(***************************************************************************)
(* parser.py, build_schedule.                                              *)
(*                                                                         *)
(* A template item is [orderedBy, status, info, start, stop]: the int of   *)
(* its orderedBy, its timeTableTemplateDetailsStatus, additionalInfo,      *)
(* startTime and endTime.  The subject table (timeTableJson) is the        *)
(* sequence of its <<key, entries>> items in dict order; a key is          *)
(* [pfx, d, o, n] for the string pfx_d_o_n, an entry [tag, val] for the    *)
(* string tag&&val.                                                        *)
(***************************************************************************)
SlotLimit == 9

\* datetime.strptime(s, "%I:%M:%S %p").strftime("%I:%M %p"); None when it raises
FormatTime(s) ==
  CASE s = "09:00:00 AM" -> "09:00 AM"
    [] s = "09:45:00 AM" -> "09:45 AM"
    [] OTHER             -> None

\* the slot label of one template item
SlotLabel(item) ==
  IF item.status = 1 THEN PyOr(item.info, "BREAK")
  ELSE IF Truthy(item.info) THEN item.info
  ELSE IF FormatTime(item.start) # None /\ FormatTime(item.stop) # None
       THEN FormatTime(item.start) \o "-" \o FormatTime(item.stop)
       ELSE PyOr(item.start, "") \o "-" \o PyOr(item.stop, "")

SlotMeta(item) ==
  [orderedBy |-> item.orderedBy, label |-> SlotLabel(item), status |-> item.status]

\* slots_by_order: a later item with the same key overwrites an earlier one
SlotsByOrder(tpl) ==
  [k \in {tpl[i].orderedBy : i \in DOMAIN tpl} |->
     LET last == CHOOSE i \in DOMAIN tpl :
                   /\ tpl[i].orderedBy = k
                   /\ \A j \in DOMAIN tpl : tpl[j].orderedBy = k => j <= i
     IN SlotMeta(tpl[last])]

RECURSIVE SortedSeq(_)
SortedSeq(S) ==
  IF S = {} THEN <<>>
  ELSE LET m == CHOOSE x \in S : \A y \in S : x <= y
       IN <<m>> \o SortedSeq(S \ {m})

\* faulty variant: the filter off by one
KeepKeyOffByOne(k) == k <= SlotLimit + 1

\* ordered_keys = [k for k in sorted(slots_by_order.keys()) if k <= 9]
KeepKey(k) == k <= SlotLimit

OrderedKeys(tpl) ==
  SortedSeq({k \in DOMAIN SlotsByOrder(tpl) : KeepKey(k)})

\* faulty variant: the day index left out of the pattern
KeyMatchesAnyDay(key, day_idx, ordered) ==
  key.pfx = "ttDivText" /\ key.o = ordered

\* pattern.fullmatch(k) for ttDivText_{day_idx}_{ordered}_[0-9]+
KeyMatches(key, day_idx, ordered) ==
  key.pfx = "ttDivText" /\ key.d = day_idx /\ key.o = ordered

\* val.split("-", 1) if "-" in val else (val, "")
SplitCode(val) ==
  CASE val = "CS301-Algorithms" -> "CS301"
    [] val = "CS302-DBMS"       -> "CS302"
    [] OTHER                    -> val

SplitName(val) ==
  CASE val = "CS301-Algorithms" -> "Algorithms"
    [] val = "CS302-DBMS"       -> "DBMS"
    [] OTHER                    -> ""

NewCell(entry, mapping) ==
  [subject |-> entry.val, code |-> SplitCode(entry.val),
   name |-> SplitName(entry.val),
   sub_code |-> MappingGet(mapping, SplitCode(entry.val)),
   faculties |-> <<>>, raw |-> <<entry>>]

\* faulty variant: the cell still open at the end of the list is not appended
RECURSIVE CellsOfEntriesNoFlush(_, _, _, _, _)
CellsOfEntriesNoFlush(entries, i, cur, out, mapping) ==
  IF i > Len(entries) THEN out
  ELSE LET e == entries[i] IN
    IF e.tag = "ttSubject"
    THEN CellsOfEntriesNoFlush(entries, i + 1, <<NewCell(e, mapping)>>,
                               out \o cur, mapping)
    ELSE IF e.tag = "ttFaculty" /\ cur # <<>>
    THEN CellsOfEntriesNoFlush(entries, i + 1,
           <<[cur[1] EXCEPT !.faculties = Append(@, e.val), !.raw = Append(@, e)]>>,
           out, mapping)
    ELSE CellsOfEntriesNoFlush(entries, i + 1, cur, out, mapping)

\* The loop over one key's entries, from entry i on: cur is the open cell
\* (<<>> when current_cell is None), out the cells list.
RECURSIVE CellsOfEntries(_, _, _, _, _)
CellsOfEntries(entries, i, cur, out, mapping) ==
  IF i > Len(entries) THEN out \o cur
  ELSE LET e == entries[i] IN
    IF e.tag = "ttSubject"
    THEN CellsOfEntries(entries, i + 1, <<NewCell(e, mapping)>>, out \o cur, mapping)
    ELSE IF e.tag = "ttFaculty" /\ cur # <<>>
    THEN CellsOfEntries(entries, i + 1,
           <<[cur[1] EXCEPT !.faculties = Append(@, e.val), !.raw = Append(@, e)]>>,
           out, mapping)
    ELSE CellsOfEntries(entries, i + 1, cur, out, mapping)

\* for k, v in tt_json.items(): the cells of one (day, slot), from item i on
RECURSIVE CellsOfSlot(_, _, _, _, _, _)
CellsOfSlot(tt, i, day_idx, ordered, out, mapping) ==
  IF i > Len(tt) THEN out
  ELSE IF KeyMatches(tt[i][1], day_idx, ordered)
  THEN CellsOfSlot(tt, i + 1, day_idx, ordered,
         CellsOfEntries(tt[i][2], 1, <<>>, out, mapping), mapping)
  ELSE CellsOfSlot(tt, i + 1, day_idx, ordered, out, mapping)

DaySlots(tpl, tt, day_idx, mapping) ==
  LET keys == OrderedKeys(tpl) IN
  [j \in 1..Len(keys) |->
     [slot |-> SlotsByOrder(tpl)[keys[j]],
      cells |-> CellsOfSlot(tt, 1, day_idx, keys[j], <<>>, mapping)]]

\* the calls of _load_subject_mapping() one after the other, n of them: the
\* cache they leave and the number of requests to _MAPPING_URL they sent
RECURSIVE LoadRepeatedly(_, _, _, _)
LoadRepeatedly(cache, rm, n, sent) ==
  IF n = 0 THEN [cache |-> cache, sent |-> sent]
  ELSE LoadRepeatedly(LoadSubjectMapping(cache, rm), rm, n - 1,
                      IF cache.init THEN sent ELSE sent + 1)

\* build_schedule: the returned dict, the cache it leaves and the number of
\* mapping requests it sent.  The mapping is loaded once per (day, slot).
BuildSchedule(meta, tpl, days, tt, cache, rm) ==
  LET l == LoadRepeatedly(cache, rm, Len(days) * Len(OrderedKeys(tpl)), 0)
  IN [ret |-> [meta |-> meta,
               schedule |-> [d \in 1..Len(days) |->
                               [day |-> days[d],
                                slots |-> DaySlots(tpl, tt, d, l.cache.map)]]],
      cache |-> l.cache,
      fetched |-> l.sent]

(***************************************************************************)
(* The admin page: its metadata spans and its concatenated inline-script   *)
(* text.  The script text is a sequence of tokens:                         *)
(*   var    the text `var <name> =`                                        *)
(*   semi   a semicolon                                                    *)
(*   text   a run of text holding neither; json says whether json.loads    *)
(*          accepts it, val is what it decodes to                          *)
(* A decoded value is [tpl, days, tt]: a template list, a day-name list or *)
(* a subject table, the other fields empty.                                *)
(***************************************************************************)
VarNames == <<"timeTableTemplateDetailsJson", "days", "timeTableJson">>

EmptyVal == [tpl |-> <<>>, days |-> <<>>, tt |-> <<>>]

VarTok(name) == [k |-> "var", name |-> name, json |-> FALSE, val |-> EmptyVal]

Semi == [k |-> "semi", name |-> "", json |-> FALSE, val |-> EmptyVal]

Text(v) == [k |-> "text", name |-> "", json |-> TRUE, val |-> v]

\* text json.loads rejects: `undefined`, or a piece of a JSON text
Garbage == [k |-> "text", name |-> "", json |-> FALSE, val |-> EmptyVal]

\* strings that hold a semicolon
SemiStrings == {"Mon;day", "Dr; X"}

HasSemi(v) ==
  \/ \E i \in DOMAIN v.days : v.days[i] \in SemiStrings
  \/ \E i \in DOMAIN v.tpl : v.tpl[i].info \in SemiStrings
  \/ \E i \in DOMAIN v.tt : \E j \in DOMAIN v.tt[i][2] : v.tt[i][2][j].val \in SemiStrings

\* json.dumps(v) as script tokens: a semicolon inside a string splits the text
JsonText(v) == IF HasSemi(v) THEN <<Garbage, Semi, Garbage>> ELSE <<Text(v)>>

\* `var <name> = <JSON text of v>;`
Assign(name, v) == <<VarTok(name)>> \o JsonText(v) \o <<Semi>>

\* re.search(rf"var\s+{name}\s*=\s*([\s\S]*?);", script_text): the first
\* assignment of the name and the first semicolon after it.
FirstVar(script, name) ==
  LET hits == {i \in DOMAIN script : script[i].k = "var" /\ script[i].name = name}
  IN IF hits = {} THEN 0 ELSE CHOOSE i \in hits : \A j \in hits : i <= j

FirstSemiAfter(script, i) ==
  LET hits == {j \in DOMAIN script : j > i /\ script[j].k = "semi"}
  IN IF hits = {} THEN 0 ELSE CHOOSE j \in hits : \A h \in hits : j <= h

\* _extract_js_json(varname): the decoded value, or the TimetableScrapingError
ExtractJsJson(script, name) ==
  LET i == FirstVar(script, name)
      j == IF i = 0 THEN 0 ELSE FirstSemiAfter(script, i)
      js_text == IF j = 0 THEN <<>> ELSE SubSeq(script, i + 1, j - 1)
  IN IF j = 0
     THEN [ok |-> FALSE, err |-> "Could not find JS variable", var |-> name,
           val |-> EmptyVal]
     ELSE IF Len(js_text) = 1 /\ js_text[1].k = "text" /\ js_text[1].json
     THEN [ok |-> TRUE, err |-> None, var |-> name, val |-> js_text[1].val]
     ELSE [ok |-> FALSE, err |-> "Failed to parse as JSON", var |-> name,
           val |-> EmptyVal]

\* faulty variant: the variables read in the reverse order
StrictExtractReversed(script) ==
  LET t == ExtractJsJson(script, VarNames[1])
      d == ExtractJsJson(script, VarNames[2])
      j == ExtractJsJson(script, VarNames[3])
      bad == IF ~j.ok THEN j ELSE IF ~d.ok THEN d ELSE t
  IN [ok |-> t.ok /\ d.ok /\ j.ok,
      err |-> bad.err, var |-> bad.var,
      tpl |-> t.val.tpl, days |-> d.val.days, tt |-> j.val.tt]

\* fetch_timetable's extraction: the first failing variable raises
StrictExtract(script) ==
  LET t == ExtractJsJson(script, VarNames[1])
      d == ExtractJsJson(script, VarNames[2])
      j == ExtractJsJson(script, VarNames[3])
      bad == IF ~t.ok THEN t ELSE IF ~d.ok THEN d ELSE j
  IN [ok |-> t.ok /\ d.ok /\ j.ok,
      err |-> bad.err, var |-> bad.var,
      tpl |-> t.val.tpl, days |-> d.val.days, tt |-> j.val.tt]

\* faulty variant: one try block around the three reads, so the first failure
\* defaults every later variable too
LenientExtractOneTry(script) ==
  LET t == ExtractJsJson(script, VarNames[1])
      d == ExtractJsJson(script, VarNames[2])
      j == ExtractJsJson(script, VarNames[3])
  IN [ok |-> TRUE, err |-> None, var |-> None,
      tpl |-> IF t.ok THEN t.val.tpl ELSE <<>>,
      days |-> IF t.ok /\ d.ok THEN d.val.days ELSE <<>>,
      tt |-> IF t.ok /\ d.ok /\ j.ok THEN j.val.tt ELSE <<>>]

\* parse_admin_html's extraction: each failing variable gets its default
LenientExtract(script) ==
  LET t == ExtractJsJson(script, VarNames[1])
      d == ExtractJsJson(script, VarNames[2])
      j == ExtractJsJson(script, VarNames[3])
  IN [ok |-> TRUE, err |-> None, var |-> None,
      tpl |-> IF t.ok THEN t.val.tpl ELSE <<>>,
      days |-> IF d.ok THEN d.val.days ELSE <<>>,
      tt |-> IF j.ok THEN j.val.tt ELSE <<>>]

\* the metadata spans: label -> following text, passed through
ParseMeta(html) == html.meta

\* parse_admin_html(html_text)
ParseAdminHtml(html, cache, rm) ==
  With(LenientExtract(html.script), LAMBDA x :
    IF ~x.ok
    THEN [exc |-> "TimetableScrapingError", ret |-> [meta |-> None, schedule |-> <<>>],
          cache |-> cache, fetched |-> 0]
    ELSE With(BuildSchedule(ParseMeta(html), x.tpl, x.days, x.tt, cache, rm),
           LAMBDA b :
             [exc |-> None, ret |-> b.ret, cache |-> b.cache, fetched |-> b.fetched]))

(***************************************************************************)
(* scraper.py, PESUTimetableScraper.  Each handler is an operator from the *)
(* client's state and the portal's replies to Done(exc, tok, jar, reqs):   *)
(* the exception that escapes (None: it returned), the token it returns or *)
(* stores, the cookie jar it leaves and the requests it made.              *)
(***************************************************************************)

\* faulty variant: the retry made whether or not a session cookie is present
RetryProfileAlways(jar) == TRUE

\* _prepare_profile_context, lines 303-312: an HTTPError of the profile GET is
\* retried once when a session cookie is present
ShouldRetryProfile(jar) == HasSessionCookie(jar)

\* faulty variant: the profile page is requested also when a response is given
ProfileResponseAlwaysGet(jar, given, initial, rp1, rp2) ==
  IF rp1.exc # None
  THEN [exc |-> rp1.exc, r |-> rp1, jar |-> jar,
        reqs |-> <<Req("profile", None, jar, TRUE)>>]
  ELSE [exc |-> IF StatusFails(rp1) THEN "HTTPError" ELSE None,
        r |-> IF given THEN initial ELSE rp1, jar |-> SetCookies(jar, rp1.setc),
        reqs |-> <<Req("profile", None, jar, StatusFails(rp1))>>]

\* lines 296-312: the response whose body the token is read from
ProfileResponse(jar, given, initial, rp1, rp2) ==
  IF given THEN [exc |-> None, r |-> initial, jar |-> jar, reqs |-> <<>>]
  ELSE IF rp1.exc # None
  THEN [exc |-> rp1.exc, r |-> rp1, jar |-> jar,
        reqs |-> <<Req("profile", None, jar, TRUE)>>]
  ELSE LET jar1 == SetCookies(jar, rp1.setc)
           rq1  == <<Req("profile", None, jar, StatusFails(rp1))>>
       IN IF ~StatusFails(rp1)
          THEN [exc |-> None, r |-> rp1, jar |-> jar1, reqs |-> rq1]
          ELSE IF ~ShouldRetryProfile(jar1)
          THEN [exc |-> "HTTPError", r |-> rp1, jar |-> jar1, reqs |-> rq1]
          ELSE IF rp2.exc # None
          THEN [exc |-> rp2.exc, r |-> rp2, jar |-> jar1,
                reqs |-> Append(rq1, Req("profile", None, jar1, TRUE))]
          ELSE LET jar2 == SetCookies(jar1, rp2.setc)
                   rq2  == Append(rq1, Req("profile", None, jar1, StatusFails(rp2)))
               IN IF StatusFails(rp2)
                  THEN [exc |-> "HTTPError", r |-> rp2, jar |-> jar2, reqs |-> rq2]
                  ELSE [exc |-> None, r |-> rp2, jar |-> jar2, reqs |-> rq2]

\* faulty variant: the cookie token before the HTML token
ContextTokenCookieFirst(page, jar) == PyOr(CookieCsrf(jar), ExtractCsrfOrNone(page))

\* lines 314-331: HTML token, then cookie token
ContextToken(page, jar) == PyOr(ExtractCsrfOrNone(page), CookieCsrf(jar))

\* lines 341-351: the semesters request; whatever it does is swallowed
WarmUpFailed(rsem) == rsem.exc # None \/ StatusFails(rsem)

\* faulty variant: a failed semesters request is raised
WarmUpRaising(pre, tok, rsem) ==
  Done(IF rsem.exc # None THEN rsem.exc
       ELSE IF StatusFails(rsem) THEN "HTTPError" ELSE None,
       tok,
       IF rsem.exc = None THEN SetCookies(pre.jar, rsem.setc) ELSE pre.jar,
       Append(pre.reqs, Req("semesters", tok, pre.jar, WarmUpFailed(rsem))))

WarmUp(pre, tok, rsem) ==
  Done(None, tok,
       IF rsem.exc = None THEN SetCookies(pre.jar, rsem.setc) ELSE pre.jar,
       Append(pre.reqs, Req("semesters", tok, pre.jar, WarmUpFailed(rsem))))

\* _prepare_profile_context(initial_response)
PrepareProfileContext(jar, given, initial, rp1, rp2, rsem) ==
  With(ProfileResponse(jar, given, initial, rp1, rp2), LAMBDA pre :
    IF pre.exc # None THEN Done(pre.exc, None, pre.jar, pre.reqs)
    ELSE With(ContextToken(pre.r.page, pre.jar), LAMBDA tok :
      IF ~Truthy(tok) THEN Done("AuthenticationError", None, pre.jar, pre.reqs)
      ELSE WarmUp(pre, tok, rsem)))

\* a dict as the set of its <<key, value>> pairs: d[k] = v, and d.get(k)
DictSet(d, k, v) == {p \in d : p[1] # k} \cup {<<k, v>>}

DictGet(d, k) == IF \E p \in d : p[1] = k THEN (CHOOSE p \in d : p[1] = k)[2] ELSE None

\* self.username, self.password
Username == "user1"

Password == "pw1"

\* login, lines 128-137: the located form's named inputs but the credentials,
\* a later input replacing an earlier one of its name
RECURSIVE GatherInputs(_, _, _)
GatherInputs(inputs, i, d) ==
  IF i > Len(inputs) THEN d
  ELSE IF inputs[i][1] \in {"", "j_username", "j_password"}
  THEN GatherInputs(inputs, i + 1, d)
  ELSE GatherInputs(inputs, i + 1, DictSet(d, inputs[i][1], inputs[i][2]))

FormInputs(form) ==
  IF ~form.present THEN {}
  ELSE GatherInputs((IF form.csrf = None THEN <<>> ELSE <<<<"_csrf", form.csrf>>>>)
                      \o form.others, 1, {})

\* login, lines 165-170: the payload of the POST
LoginPayload(form, csrf) ==
  DictSet(DictSet(DictSet(FormInputs(form), "_csrf", csrf),
                  "j_username", Username),
          "j_password", Password)

\* faulty variant: the page token before the form value
LoginCsrfPageFirst(page, jar) ==
  PyOr(PyOr(ExtractCsrfOrNone(page), DictGet(FormInputs(page.form), "_csrf")),
       CookieCsrf(jar))

\* login, lines 139-163: form value, then page token, then cookie
LoginCsrf(page, jar) ==
  LET form_csrf == DictGet(FormInputs(page.form), "_csrf")
      page_csrf == ExtractCsrfOrNone(page)
  IN IF Truthy(form_csrf) THEN form_csrf
     ELSE IF Truthy(page_csrf) THEN page_csrf
     ELSE CookieCsrf(jar)

\* faulty variant: the form's action is not looked for
LoginPageDetectedByFieldOnly(marks) ==
  \/ "j_username" \in marks
  \/ ("invalid" \in marks /\ "login" \in marks)

\* login, lines 213-218: the login page or an error message is detected
LoginPageDetected(marks) ==
  \/ "j_username" \in marks
  \/ "j_spring_security_check" \in marks
  \/ ("invalid" \in marks /\ "login" \in marks)

\* login, lines 195-210: the https re-fetch of an http landing URL
RefetchLanding(rp) == rp.http

FinalResponse(rp, rl) ==
  IF RefetchLanding(rp) /\ rl.exc = None /\ rl.status < 400 THEN rl ELSE rp

\* login, lines 223-232: the token stored after a validated login
TokenAfterLogin(prep) ==
  IF prep.exc = None THEN prep.tok ELSE CookieCsrf(prep.jar)

\* faulty variant: only the first handler, `except requests.RequestException`
LoginRaiseRequestsOnly(k, jar, reqs) ==
  Done(IF IsRequestException(k) THEN "AuthenticationError" ELSE k, None, jar, reqs)

\* login, lines 236-239: every exception leaves as AuthenticationError
LoginRaise(k, jar, reqs) == Done("AuthenticationError", None, jar, reqs)

\* faulty variant: the token assigned before the call is known to return
TokenStoredEarly(d, before) == d.tok

\* login, line 232: self.csrf_token is assigned only when nothing raised
TokenStored(d, before) == IF d.exc = None THEN d.tok ELSE before

\* login(), lines 101-234
Login(jar, r0, rp, rl, rsem) ==
  LET rq0 == <<Req("root", None, jar, r0.exc # None \/ StatusFails(r0))>> IN
  IF r0.exc # None THEN LoginRaise(r0.exc, jar, rq0)
  ELSE LET jar1 == SetCookies(jar, r0.setc) IN
  IF StatusFails(r0) THEN LoginRaise("HTTPError", jar1, rq0)
  ELSE LET csrf == LoginCsrf(r0.page, jar1) IN
  IF ~Truthy(csrf) THEN LoginRaise("AuthenticationError", jar1, rq0)
  ELSE LET rqP == Append(rq0, [Req("login", csrf, jar1, rp.exc # None)
                                 EXCEPT !.data = LoginPayload(r0.page.form, csrf)]) IN
  IF rp.exc # None THEN LoginRaise(rp.exc, jar1, rqP)
  ELSE LET jar2  == SetCookies(jar1, rp.setc)
           again == RefetchLanding(rp)
           rqL   == IF again
                    THEN Append(rqP, Req("landing", None, jar2,
                                         rl.exc # None \/ StatusFails(rl)))
                    ELSE rqP
           jar3  == IF again /\ rl.exc = None THEN SetCookies(jar2, rl.setc) ELSE jar2
           final == FinalResponse(rp, rl)
       IN
  IF LoginPageDetected(final.page.marks)
  THEN Validated(LoginRaise("AuthenticationError", jar3, rqL), final.page.marks)
  ELSE With(PrepareProfileContext(jar3, TRUE, final, NoReply, NoReply, rsem),
         LAMBDA prep :
           IF prep.exc \notin {None, "AuthenticationError"}
           THEN Validated(LoginRaise(prep.exc, prep.jar, rqL \o prep.reqs),
                          final.page.marks)
           ELSE Validated(Done(None, TokenAfterLogin(prep), prep.jar,
                               rqL \o prep.reqs),
                          final.page.marks))

\* logout(), lines 278-284: only a RequestException is caught
LogoutRaise(k) == IF IsRequestException(k) THEN None ELSE k

Logout(jar, tok, rlo) ==
  IF rlo.exc # None
  THEN Done(LogoutRaise(rlo.exc), tok, jar, <<Req("logout", None, jar, TRUE)>>)
  ELSE Done(None, tok, SetCookies(jar, rlo.setc),
            <<Req("logout", None, jar, FALSE)>>)

(***************************************************************************)
(* fetch_timetable.  The admin reply carries the admin page (html) in      *)
(* place of a login-side page.                                             *)
(***************************************************************************)
NoHtml == [meta |-> None, script |-> <<>>]

NoRet == [meta |-> None, schedule |-> <<>>]

AdminRaises(k) == [exc |-> k, status |-> 0, html |-> NoHtml, setc |-> "none"]

AdminReply(st, h) == [exc |-> None, status |-> st, html |-> h, setc |-> "none"]

\* lines 389-398: only a RequestException becomes a TimetableScrapingError
FetchRaise(k) == IF IsRequestException(k) THEN "TimetableScrapingError" ELSE k

Fetched(e, t, jar, rq, h, v, ret, cache, mf) ==
  [exc |-> e, tok |-> t, jar |-> jar, reqs |-> rq, html |-> h, var |-> v,
   ret |-> ret, cache |-> cache, fetched |-> mf]

\* lines 400-439: the page is parsed, strictly, and the schedule built
ParseFetched(tok, jar, rq, html, cache, rm) ==
  With(StrictExtract(html.script), LAMBDA x :
    IF ~x.ok
    THEN Fetched("TimetableScrapingError", tok, jar, rq, html, x.var, NoRet,
                 cache, 0)
    ELSE With(BuildSchedule(ParseMeta(html), x.tpl, x.days, x.tt, cache, rm),
           LAMBDA b :
             Fetched(None, tok, jar, rq, html, None, b.ret, b.cache, b.fetched)))

\* lines 372-398: the admin request, with the token now stored
AdminRequest(tok, jar, rq, radm, cache, rm) ==
  With(Append(rq, Req("admin", tok, jar, radm.exc # None \/ StatusFails(radm))),
    LAMBDA rqA :
      IF radm.exc # None
      THEN Fetched(FetchRaise(radm.exc), tok, jar, rqA, NoHtml, None, NoRet,
                   cache, 0)
      ELSE IF StatusFails(radm)
      THEN Fetched(FetchRaise("HTTPError"), tok, SetCookies(jar, radm.setc), rqA,
                   NoHtml, None, NoRet, cache, 0)
      ELSE ParseFetched(tok, SetCookies(jar, radm.setc), rqA, radm.html, cache, rm))

\* faulty variant: the context is prepared on every call
FetchTimetableAlwaysPrepare(csrf_token, jar, cache, rp1, rp2, rsem, radm, rm) ==
  With(PrepareProfileContext(jar, FALSE, NoReply, rp1, rp2, rsem),
    LAMBDA prep :
      IF prep.exc # None
      THEN Fetched(prep.exc, csrf_token, prep.jar, prep.reqs, NoHtml, None,
                   NoRet, cache, 0)
      ELSE AdminRequest(prep.tok, prep.jar, prep.reqs, radm, cache, rm))

\* fetch_timetable(), lines 368-439
FetchTimetable(csrf_token, jar, cache, rp1, rp2, rsem, radm, rm) ==
  IF Truthy(csrf_token)
  THEN AdminRequest(csrf_token, jar, <<>>, radm, cache, rm)
  ELSE With(PrepareProfileContext(jar, FALSE, NoReply, rp1, rp2, rsem),
         LAMBDA prep :
           IF prep.exc # None
           THEN Fetched(prep.exc, csrf_token, prep.jar, prep.reqs, NoHtml, None,
                        NoRet, cache, 0)
           ELSE AdminRequest(prep.tok, prep.jar, prep.reqs, radm, cache, rm))

(***************************************************************************)
(* The portal's replies the session is run against.                        *)
(***************************************************************************)
WithToken(t) == [BlankPage EXCEPT !.inp = t]

WithMarks(m) == [BlankPage EXCEPT !.marks = m]

\* the landing page: a login form with a _csrf field, a form without one on a
\* page with a meta token, and a form with an empty _csrf field and no token
LandingPages ==
  {[BlankPage EXCEPT !.form = LoginForm("f1"), !.inp = "f1",
                     !.marks = {"j_username", "login"}],
   [BlankPage EXCEPT !.form = LoginForm(None),
                     !.meta = <<None, "h0", None>>,
                     !.marks = {"j_username", "login"}],
   [BlankPage EXCEPT !.form = LoginForm(""), !.inp = "",
                     !.marks = {"j_username", "login"}]}

\* what the POST (or the https landing fetch) ends on
PostPages ==
  {BlankPage, WithToken("h1"),
   WithMarks({"j_username"}), WithMarks({"j_spring_security_check"}),
   WithMarks({"invalid"}), WithMarks({"login"}), WithMarks({"invalid", "login"}),
   [WithToken("h1") EXCEPT !.marks = {"j_username", "login"}]}

RootReplies ==
  {Raises("ConnectionError"), Raises("OSError"), Reply(404, BlankPage, FALSE, "none")}
  \cup {Reply(200, p, FALSE, "none") : p \in LandingPages}

PostReplies ==
  {Raises("Timeout"), Raises("OSError")}
  \cup {Reply(200, p, FALSE, "none") : p \in PostPages}
  \cup {Reply(200, p, TRUE, "none") : p \in {BlankPage, WithToken("h1"),
                                             WithMarks({"j_username"})}}
  \cup {Reply(200, BlankPage, FALSE, "sess"), Reply(200, BlankPage, FALSE, "xsrf"),
        Reply(500, BlankPage, FALSE, "none")}

LandingReplies ==
  {Raises("ConnectionError"), Reply(404, BlankPage, FALSE, "none")}
  \cup {Reply(200, p, FALSE, "none") : p \in {WithToken("h1"),
                                              WithMarks({"j_username"})}}

WarmUpReplies ==
  {Raises("Timeout"), Reply(500, BlankPage, FALSE, "none"),
   Reply(200, BlankPage, FALSE, "none")}

ProfileReplies ==
  {Raises("ConnectionError"), Raises("OSError"),
   Reply(200, BlankPage, FALSE, "none"), Reply(200, WithToken("h2"), FALSE, "none"),
   Reply(500, BlankPage, FALSE, "none"), Reply(500, BlankPage, FALSE, "sess")}

LogoutReplies ==
  {Raises("ConnectionError"), Raises("Timeout"), Raises("OSError"),
   Reply(200, BlankPage, FALSE, "none"), Reply(200, BlankPage, FALSE, "clear")}

(***************************************************************************)
(* Admin pages of the session runs: a well-formed page, a page with one    *)
(* variable missing and a page with one variable that is not JSON.         *)
(***************************************************************************)
Item(o, st, info) ==
  [orderedBy |-> o, status |-> st, info |-> info,
   start |-> "09:00:00 AM", stop |-> "09:45:00 AM"]

Key(d, o, n) == [pfx |-> "ttDivText", d |-> d, o |-> o, n |-> n]

Subject(v) == [tag |-> "ttSubject", val |-> v]

Faculty(v) == [tag |-> "ttFaculty", val |-> v]

TplVal(t) == [EmptyVal EXCEPT !.tpl = t]

DaysVal(d) == [EmptyVal EXCEPT !.days = d]

TtVal(t) == [EmptyVal EXCEPT !.tt = t]

SampleTpl == <<Item(1, 0, None), Item(2, 1, None), Item(10, 0, "Late")>>

SampleDays == <<"Monday", "Tuesday">>

SampleTt ==
  <<<<Key(1, 1, 1), <<Subject("CS301-Algorithms"), Faculty("Dr. X")>>>>,
    <<Key(2, 1, 1), <<Subject("CS302-DBMS")>>>>>>

AdminPage(script) == [meta |-> "Section A", script |-> script]

GoodPage ==
  AdminPage(Assign(VarNames[1], TplVal(SampleTpl))
            \o Assign(VarNames[2], DaysVal(SampleDays))
            \o Assign(VarNames[3], TtVal(SampleTt)))

NoDaysPage ==
  AdminPage(Assign(VarNames[1], TplVal(SampleTpl))
            \o Assign(VarNames[3], TtVal(SampleTt)))

BadJsonPage ==
  AdminPage(Assign(VarNames[1], TplVal(SampleTpl))
            \o Assign(VarNames[2], DaysVal(SampleDays))
            \o <<VarTok(VarNames[3]), Garbage, Semi>>)

AdminReplies ==
  {AdminRaises("ConnectionError"), AdminRaises("OSError"), AdminReply(500, NoHtml)}
  \cup {AdminReply(200, h) : h \in {GoodPage, NoDaysPage, BadJsonPage}}

(***************************************************************************)
(* State.                                                                  *)
(*   csrf_token       self.csrf_token                                      *)
(*   cookies          self.session.cookies                                 *)
(*   subject_mapping  parser._SUBJECT_MAPPING                              *)
(*   last             the last call: which, the exception that escaped it  *)
(*                    (None: it returned), its requests, and what it read  *)
(*                    and returned (val: a token; events: the VEVENT       *)
(*                    blocks of a calendar; cmp: a comparison of two       *)
(*                    timetables)                                          *)
(*   args             the arguments of the parser call under study         *)
(*   twin             a second PESUTimetableScraper of the same process    *)
(*                    (peer), and for each of the two scrapers the run it  *)
(*                    would make in a process of its own with the same     *)
(*                    replies (solo)                                       *)
(*   threads          the threads inside parser._load_subject_mapping():   *)
(*                    where each stands (pc), what each returned (seen),   *)
(*                    and how many requests for the mapping were sent      *)
(***************************************************************************)
VARIABLES csrf_token, cookies, subject_mapping, last, args, twin, threads

vars == <<csrf_token, cookies, subject_mapping, last, args, twin, threads>>

\* no thread is inside _load_subject_mapping()
NoThreads == [pc |-> <<>>, seen |-> <<>>, sent |-> 0]

\* args: what a call on bounded inputs is given; unused by the session runs
NoArgs ==
  [kind |-> "none", html |-> NoHtml, tpl |-> <<>>, days |-> <<>>, tt |-> <<>>,
   doc |-> NoDoc, reply |-> NoReply, retry |-> NoReply, pair |-> <<NoRet, NoRet>>]

Call(op, e, rq, marks, h, v, ret, mf) ==
  [op |-> op, exc |-> e, reqs |-> rq, marks |-> marks,
   html |-> h, var |-> v, ret |-> ret, fetched |-> mf, val |-> None,
   events |-> <<>>,
   cmp |-> [schedule_comparison |-> <<>>, common_free_periods |-> <<>>]]

\* a scraper as __init__ leaves it, and one with a parser module of its own
FreshScraper ==
  [csrf_token |-> None, cookies |-> EmptyJar,
   last |-> Call("init", None, <<>>, {}, NoHtml, None, NoRet, 0)]

FreshSolo ==
  [csrf_token |-> None, cookies |-> EmptyJar, subject_mapping |-> NoMapping,
   last |-> Call("init", None, <<>>, {}, NoHtml, None, NoRet, 0)]

NoTwin == [peer |-> FreshScraper, solo |-> <<FreshSolo, FreshSolo>>]

\* PESUTimetableScraper.__init__ and the parser module's load
Init ==
  /\ csrf_token = None
  /\ cookies = EmptyJar
  /\ subject_mapping = NoMapping
  /\ last = Call("init", None, <<>>, {}, NoHtml, None, NoRet, 0)
  /\ args = NoArgs
  /\ twin = NoTwin
  /\ threads = NoThreads

\* which replies a login run gets to read
PostSent(jar, r0) ==
  /\ r0.exc = None
  /\ ~StatusFails(r0)
  /\ Truthy(LoginCsrf(r0.page, SetCookies(jar, r0.setc)))

HasRequest(rq, u) == \E i \in DOMAIN rq : rq[i].url = u

\* which replies a context preparation gets to read
ProfileRetried(jar, rp1) ==
  rp1.exc = None /\ StatusFails(rp1) /\ ShouldRetryProfile(SetCookies(jar, rp1.setc))

WarmUpSent(jar, rp1, rp2) ==
  HasRequest(PrepareProfileContext(jar, FALSE, NoReply, rp1, rp2, NoReply).reqs,
             "semesters")

\* which replies a fetch gets to read
Builds(radm) ==
  radm.exc = None /\ ~StatusFails(radm) /\ StrictExtract(radm.html.script).ok

\* scraper.login()
LoginCall ==
  \E r0 \in RootReplies :
  \E rp \in IF PostSent(cookies, r0) THEN PostReplies ELSE {NoReply} :
  \E rl \in IF rp.exc = None /\ RefetchLanding(rp) THEN LandingReplies ELSE {NoReply} :
  \E rsem \in IF HasRequest(Login(cookies, r0, rp, rl, NoReply).reqs, "semesters")
              THEN WarmUpReplies ELSE {NoReply} :
    LET d == Login(cookies, r0, rp, rl, rsem) IN
    /\ csrf_token' = TokenStored(d, csrf_token)
    /\ cookies' = d.jar
    /\ last' = Call("login", d.exc, d.reqs, d.marks, NoHtml, None,
                    NoRet, 0)
    /\ UNCHANGED <<subject_mapping, args, twin, threads>>

\* scraper.csrf_token = scraper._prepare_profile_context()
PrepareCall ==
  \E rp1 \in ProfileReplies :
  \E rp2 \in IF ProfileRetried(cookies, rp1) THEN ProfileReplies ELSE {NoReply} :
  \E rsem \in IF WarmUpSent(cookies, rp1, rp2) THEN WarmUpReplies ELSE {NoReply} :
    LET d == PrepareProfileContext(cookies, FALSE, NoReply, rp1, rp2, rsem) IN
    /\ csrf_token' = IF d.exc = None THEN d.tok ELSE csrf_token
    /\ cookies' = d.jar
    /\ last' = Call("prepare", d.exc, d.reqs, {}, NoHtml, None,
                    NoRet, 0)
    /\ UNCHANGED <<subject_mapping, args, twin, threads>>

\* scraper.fetch_timetable()
FetchCall ==
  \E rp1 \in IF Truthy(csrf_token) THEN {NoReply} ELSE ProfileReplies :
  \E rp2 \in IF ~Truthy(csrf_token) /\ ProfileRetried(cookies, rp1)
             THEN ProfileReplies ELSE {NoReply} :
  \E rsem \in IF ~Truthy(csrf_token) /\ WarmUpSent(cookies, rp1, rp2)
              THEN WarmUpReplies ELSE {NoReply} :
  \E radm \in IF Truthy(csrf_token) \/ WarmUpSent(cookies, rp1, rp2)
              THEN AdminReplies ELSE {AdminRaises("unused")} :
  \E rm \in IF ~subject_mapping.init /\ Builds(radm)
            THEN MappingReplies ELSE {CHOOSE r \in MappingReplies : TRUE} :
    LET f == FetchTimetable(csrf_token, cookies, subject_mapping,
                            rp1, rp2, rsem, radm, rm) IN
    /\ csrf_token' = f.tok
    /\ cookies' = f.jar
    /\ subject_mapping' = f.cache
    /\ last' = Call("fetch", f.exc, f.reqs, {}, f.html, f.var,
                    f.ret, f.fetched)
    /\ UNCHANGED <<args, twin, threads>>

\* scraper.logout()
LogoutCall ==
  \E rlo \in LogoutReplies :
    LET d == Logout(cookies, csrf_token, rlo) IN
    /\ csrf_token' = d.tok
    /\ cookies' = d.jar
    /\ last' = Call("logout", d.exc, d.reqs, {}, NoHtml, None,
                    NoRet, 0)
    /\ UNCHANGED <<subject_mapping, args, twin, threads>>

Next == LoginCall \/ PrepareCall \/ FetchCall \/ LogoutCall

Spec == Init /\ [][Next]_vars

(***************************************************************************)
(* SpecParse: the parser on bounded inputs.                                *)
(*   MaxTplLen  the longest template list                                  *)
(*   MaxOrder   the largest order key (the kept ones are those <= 9)       *)
(*   MaxDays    the longest day-name list                                  *)
(***************************************************************************)
MaxTplLen == 2

MaxOrder == 10

MaxDays == 2

OrderKeys == (SlotLimit - 1)..MaxOrder

TplItems == {Item(k, st, None) : k \in OrderKeys, st \in {0, 1}}

Templates == UNION {[1..n -> TplItems] : n \in 0..MaxTplLen}

DayNames == <<"Monday", "Tuesday", "Wednesday", "Thursday", "Friday", "Saturday">>

DayLists == {SubSeq(DayNames, 1, n) : n \in 0..MaxDays}

OtherKey(d, o, n) == [pfx |-> "cellText", d |-> d, o |-> o, n |-> n]

Tables ==
  {<<>>,
   <<<<Key(1, 9, 1), <<Subject("CS301-Algorithms"), Faculty("Dr. X")>>>>>>,
   <<<<Key(1, 10, 1), <<Subject("CS301-Algorithms"), Faculty("Dr. X")>>>>>>,
   <<<<Key(1, 9, 1), <<Subject("CS301-Algorithms"), Faculty("Dr. X")>>>>,
     <<Key(1, 9, 2), <<Faculty("Dr. Y")>>>>,
     <<Key(2, 10, 1), <<Subject("CS302-DBMS")>>>>>>,
   <<<<Key(2, 9, 2), <<Subject("CS302-DBMS"), Faculty("Dr. Y")>>>>,
     <<Key(2, 9, 1), <<Subject("LAB")>>>>,
     <<Key(1, 8, 1), <<Faculty("Dr. X"), Subject("CS301-Algorithms")>>>>>>,
   <<<<OtherKey(1, 9, 1), <<Subject("CS301-Algorithms")>>>>,
     <<Key(1, 9, 1), <<Subject("CS302-DBMS"), Subject("LAB"), Faculty("Dr. Y")>>>>>>}

\* How one variable can stand in the script: not at all, assigned a JSON text,
\* assigned text that is not JSON, assigned without the closing semicolon, and
\* assigned a JSON text with a semicolon inside a string.
Statements(name, v, vsemi) ==
  {<<>>,
   Assign(name, v),
   <<VarTok(name), Garbage, Semi>>,
   <<VarTok(name)>> \o JsonText(v),
   Assign(name, vsemi)}

PageTpl == <<Item(8, 0, None), Item(9, 1, None), Item(10, 0, "Late")>>

RichPages ==
  {AdminPage(a \o b \o c) :
     a \in Statements(VarNames[1], TplVal(PageTpl), TplVal(<<Item(9, 0, "Dr; X")>>)),
     b \in Statements(VarNames[2], DaysVal(SampleDays), DaysVal(<<"Mon;day">>)),
     c \in Statements(VarNames[3], TtVal(SampleTt),
                      TtVal(<<<<Key(1, 9, 1), <<Faculty("Dr; X")>>>>>>))}

ParseArgs ==
  {[NoArgs EXCEPT !.kind = "values", !.tpl = t, !.days = d, !.tt = j] :
     t \in Templates, d \in DayLists, j \in Tables}
  \cup {[NoArgs EXCEPT !.kind = "page", !.html = h] : h \in RichPages}

\* the cache before the call: never loaded, loaded empty, loaded with a mapping
Caches == {NoMapping, [init |-> TRUE, map |-> {}], [init |-> TRUE, map |-> FullMap]}

\* a client that has logged in, and the call's arguments
InitParse ==
  /\ csrf_token = "h1"
  /\ cookies = [EmptyJar EXCEPT !.sess = TRUE]
  /\ subject_mapping \in Caches
  /\ last = Call("init", None, <<>>, {}, NoHtml, None, NoRet, 0)
  /\ args \in ParseArgs
  /\ twin = NoTwin
  /\ threads = NoThreads

\* the mapping replies a call gets to read
MappingRepliesFor(cache) ==
  IF cache.init THEN {CHOOSE r \in MappingReplies : TRUE} ELSE MappingReplies

\* build_schedule(meta, template_details, days, tt_json)
BuildCall ==
  /\ last.op = "init"
  /\ args.kind = "values"
  /\ \E rm \in MappingRepliesFor(subject_mapping) :
     \E b \in {BuildSchedule("Section A", args.tpl, args.days, args.tt,
                             subject_mapping, rm)} :
       /\ subject_mapping' = b.cache
       /\ last' = Call("build", None, <<>>, {}, NoHtml, None, b.ret, b.fetched)
  /\ UNCHANGED <<csrf_token, cookies, args, twin, threads>>

\* parse_admin_html(html_text)
ParseCall ==
  /\ last.op = "init"
  /\ args.kind = "page"
  /\ \E rm \in MappingRepliesFor(subject_mapping) :
     \E b \in {ParseAdminHtml(args.html, subject_mapping, rm)} :
       /\ subject_mapping' = b.cache
       /\ last' = Call("parse", b.exc, <<>>, {}, args.html, None, b.ret, b.fetched)
  /\ UNCHANGED <<csrf_token, cookies, args, twin, threads>>

\* scraper.fetch_timetable(), the admin endpoint answering with the page
FetchPageCall ==
  /\ last.op = "init"
  /\ args.kind = "page"
  /\ \E rm \in MappingRepliesFor(subject_mapping) :
     \E f \in {FetchTimetable(csrf_token, cookies, subject_mapping, NoReply,
                              NoReply, NoReply, AdminReply(200, args.html), rm)} :
       /\ csrf_token' = f.tok
       /\ cookies' = f.jar
       /\ subject_mapping' = f.cache
       /\ last' = Call("fetch", f.exc, f.reqs, {}, f.html, f.var, f.ret, f.fetched)
  /\ UNCHANGED <<args, twin, threads>>

NextParse == BuildCall \/ ParseCall \/ FetchPageCall

SpecParse == InitParse /\ [][NextParse]_vars

(***************************************************************************)
(* The claims.                                                             *)
(***************************************************************************)
Urls == {"root", "login", "landing", "profile", "semesters", "admin", "logout"}

CountUrl(rq, u) == Cardinality({i \in DOMAIN rq : rq[i].url = u})

\* the variable is not assigned anywhere in the script text
Absent(script, name) ==
  ~\E i \in DOMAIN script : script[i].k = "var" /\ script[i].name = name

\* the variable is absent, or what is captured for it is not JSON
Failing(script, name) == Absent(script, name) \/ ~ExtractJsJson(script, name).ok

\* C1: after every login() that returns without raising, csrf_token is a
\* non-empty string, whatever the post-login page and the cookie jar hold.
C1_LoginLeavesToken ==
  (last.op = "login" /\ last.exc = None) => Truthy(csrf_token)

\* C2: when the body login() validates holds "j_username", or
\* "j_spring_security_check", or both "invalid" and "login", login() raises
\* AuthenticationError and csrf_token keeps the value it had.
C2_MarkersFailLogin ==
  [][(/\ last'.op = "login"
      /\ \/ "j_username" \in last'.marks
         \/ "j_spring_security_check" \in last'.marks
         \/ {"invalid", "login"} \subseteq last'.marks)
     => (last'.exc = "AuthenticationError" /\ csrf_token' = csrf_token)]_vars

\* a second login that ends on the login form, after one that stored a token
C2_Witness ==
  /\ last.op = "login"
  /\ "j_spring_security_check" \in last.marks
  /\ last.exc = "AuthenticationError"
  /\ Truthy(csrf_token)

\* C3: fetch_timetable() returns, raises AuthenticationError or raises
\* TimetableScrapingError; no other kind of error escapes it.
C3_FetchErrorKinds ==
  last.op = "fetch"
  => last.exc \in {None, "AuthenticationError", "TimetableScrapingError"}

\* C4: login() returns or raises AuthenticationError and nothing else; a
\* failed initial GET or POST makes it raise AuthenticationError.
C4_LoginErrorKind ==
  last.op = "login"
  => /\ last.exc \in {None, "AuthenticationError"}
     /\ (\E i \in DOMAIN last.reqs :
           last.reqs[i].url \in {"root", "login"} /\ last.reqs[i].failed)
        => last.exc = "AuthenticationError"

\* a login whose POST failed in transport
C4_Witness ==
  /\ last.op = "login"
  /\ Len(last.reqs) = 2
  /\ last.reqs[2].url = "login"
  /\ last.reqs[2].failed
  /\ last.exc = "AuthenticationError"

\* C5: logout() returns normally whatever the GET to the logout endpoint does.
C5_LogoutNeverRaises == last.op = "logout" => last.exc = None

\* C6: after logout() returns the client holds no CSRF token.
C6_LogoutDiscardsToken ==
  (last.op = "logout" /\ last.exc = None) => csrf_token = None

C8_StrictRaises ==
  (last.op = "fetch" /\ \E n \in 1..3 : Failing(last.html.script, VarNames[n]))
  => /\ last.exc = "TimetableScrapingError"
     /\ last.ret = NoRet
     /\ last.var = VarNames[CHOOSE n \in 1..3 :
                              /\ Failing(last.html.script, VarNames[n])
                              /\ \A m \in 1..(n - 1) :
                                   ~Failing(last.html.script, VarNames[m])]

\* a fetch of a page without days and with a timeTableJson that is not JSON
C8_Witness ==
  /\ last.op = "fetch"
  /\ ~Failing(last.html.script, VarNames[1])
  /\ Absent(last.html.script, VarNames[2])
  /\ ~Absent(last.html.script, VarNames[3])
  /\ Failing(last.html.script, VarNames[3])
  /\ last.var = "days"

\* the value parse_admin_html is to use for a variable: what its assignment
\* decodes to, and the default when it is missing or not JSON
ValueOr(script, name, default) ==
  IF Failing(script, name) THEN default ELSE ExtractJsJson(script, name).val

\* C9: parse_admin_html() raises nothing, and treats each missing variable on
\* its own as [] (template), [] (days) or {} (subject table): without days the
\* schedule is empty, and without the template alone every day has no slot.
C9_LenientDefaults ==
  last.op = "parse"
  => LET s == last.html.script
         t == ValueOr(s, VarNames[1], EmptyVal).tpl
         d == ValueOr(s, VarNames[2], EmptyVal).days
         j == ValueOr(s, VarNames[3], EmptyVal).tt
     IN /\ last.exc = None
        /\ last.ret.meta = last.html.meta
        /\ last.ret.schedule =
             [i \in 1..Len(d) |->
                [day |-> d[i], slots |-> DaySlots(t, j, i, subject_mapping.map)]]
        /\ Absent(s, VarNames[2]) => last.ret.schedule = <<>>
        /\ (Absent(s, VarNames[1]) /\ ~Failing(s, VarNames[2]))
           => /\ Len(last.ret.schedule) = Len(d)
              /\ \A i \in DOMAIN last.ret.schedule :
                   last.ret.schedule[i].slots = <<>>

\* a parse of a page that lacks only the template: two days, no slot
C9_Witness ==
  /\ last.op = "parse"
  /\ last.exc = None
  /\ Absent(last.html.script, VarNames[1])
  /\ ~Failing(last.html.script, VarNames[2])
  /\ ~Failing(last.html.script, VarNames[3])
  /\ Len(last.ret.schedule) = 2
  /\ \A i \in DOMAIN last.ret.schedule : last.ret.schedule[i].slots = <<>>

\* the subject entries of the table's items keyed to day d and order o
SubjectsKeyed(tt, d, o) ==
  {<<i, e>> \in (DOMAIN tt) \X (1..8) :
     /\ tt[i][1].pfx = "ttDivText" /\ tt[i][1].d = d /\ tt[i][1].o = o
     /\ e \in DOMAIN tt[i][2]
     /\ tt[i][2][e].tag = "ttSubject"}

\* C10: every day of a build_schedule result has as many slots as the template
\* has distinct order keys <= 9, none of them with a key > 9, and each slot has
\* one cell per subject entry keyed to its day and order: entries keyed to an
\* order > 9 give no cell.
C10_Truncation ==
  last.op = "build"
  => LET kept == {k \in {args.tpl[i].orderedBy : i \in DOMAIN args.tpl} : k <= 9}
     IN /\ Len(last.ret.schedule) = Len(args.days)
        /\ \A d \in DOMAIN last.ret.schedule :
             LET slots == last.ret.schedule[d].slots IN
             /\ Len(slots) = Cardinality(kept)
             /\ \A x \in DOMAIN slots :
                  /\ slots[x].slot.orderedBy \in kept
                  /\ Len(slots[x].cells) =
                       Cardinality(SubjectsKeyed(args.tt, d, slots[x].slot.orderedBy))

\* a build with order keys 9 and 10 and a subject keyed to order 10
C10_Witness ==
  /\ last.op = "build"
  /\ {args.tpl[i].orderedBy : i \in DOMAIN args.tpl} = {9, 10}
  /\ Len(args.days) >= 1
  /\ SubjectsKeyed(args.tt, 1, 10) # {}
  /\ Len(last.ret.schedule[1].slots) = 1

(***************************************************************************)
(* SpecCells: build_schedule on one slot of one day, the subject table     *)
(* holding one key with any entry list, or two keys of that slot in either *)
(* order.                                                                  *)
(*   MaxEntries      the longest entry list of a single key                *)
(*   MaxPairEntries  the longest entry list of each of two keys            *)
(***************************************************************************)
MaxEntries == 4

MaxPairEntries == 2

\* an entry that is neither a subject nor a faculty
Room(v) == [tag |-> "ttRoom", val |-> v]

EntryKinds ==
  {Subject("CS301-Algorithms"), Subject("LAB"),
   Faculty("Dr. X"), Faculty("Dr. Y"), Room("R1")}

EntryLists(n) == UNION {[1..k -> EntryKinds] : k \in 0..n}

CellTables ==
  {<<<<Key(1, 1, 1), e>>>> : e \in EntryLists(MaxEntries)}
  \cup {<<<<Key(1, 1, n[1]), e1>>, <<Key(1, 1, n[2]), e2>>>> :
          n \in {<<1, 2>>, <<2, 1>>},
          e1 \in EntryLists(MaxPairEntries), e2 \in EntryLists(MaxPairEntries)}

CellArgs ==
  {[NoArgs EXCEPT !.kind = "values", !.tpl = <<Item(1, 0, None)>>,
                   !.days = <<"Monday">>, !.tt = j] : j \in CellTables}

InitCells ==
  /\ csrf_token = "h1"
  /\ cookies = [EmptyJar EXCEPT !.sess = TRUE]
  /\ subject_mapping \in Caches
  /\ last = Call("init", None, <<>>, {}, NoHtml, None, NoRet, 0)
  /\ args \in CellArgs
  /\ twin = NoTwin
  /\ threads = NoThreads

NextCells == BuildCall

SpecCells == InitCells /\ [][NextCells]_vars

IsSubject(e) == e.tag = "ttSubject"

IsFaculty(e) == e.tag = "ttFaculty"

\* the position of the k-th subject entry of a list
SubjectAt(entries, k) ==
  CHOOSE i \in DOMAIN entries :
    /\ IsSubject(entries[i])
    /\ Cardinality({j \in 1..i : IsSubject(entries[j])}) = k

\* the names of the faculty entries at positions a+1 .. b-1
FacultiesBetween(entries, a, b) ==
  LET f == SelectSeq(SubSeq(entries, a + 1, b - 1), IsFaculty)
  IN [x \in DOMAIN f |-> f[x].val]

\* the cells of the only slot of the only day of a SpecCells build
BuiltCells == last.ret.schedule[1].slots[1].cells

\* cells is what the left-to-right assembly of one entry list gives: one Cell
\* per subject entry, in input order, the k-th holding the faculty entries
\* between the k-th subject and the next one
AssembledFrom(cells, entries) ==
  LET n == Len(SelectSeq(entries, IsSubject))
  IN /\ Len(cells) = n
     /\ \A k \in 1..n :
          LET a == SubjectAt(entries, k)
              b == IF k < n THEN SubjectAt(entries, k + 1) ELSE Len(entries) + 1
          IN /\ cells[k].subject = entries[a].val
             /\ cells[k].faculties = FacultiesBetween(entries, a, b)

\* C11: for a single matched entry list, there is one Cell per subject entry,
\* in input order, and the faculties of the k-th Cell are the faculty entries
\* between the k-th subject and the next one; faculty entries before the first
\* subject, and entries with another tag, appear in no Cell.
C11_CellAssembly ==
  (last.op = "build" /\ Len(args.tt) = 1)
  => AssembledFrom(BuiltCells, args.tt[1][2])

\* subject, faculty, subject, faculty: two Cells with one faculty each
C11_Witness ==
  /\ last.op = "build"
  /\ Len(args.tt) = 1
  /\ args.tt[1][2] = <<Subject("CS301-Algorithms"), Faculty("Dr. X"),
                       Subject("LAB"), Faculty("Dr. Y")>>
  /\ Len(BuiltCells) = 2
  /\ BuiltCells[1].faculties = <<"Dr. X">>
  /\ BuiltCells[2].faculties = <<"Dr. Y">>

\* C12: when the table holds the keys numbered 1 and 2 of one slot, in that
\* order, the open Cell carries over from the first key to the second: the
\* slot's Cells are those of the two entry lists taken as one list.
C12_CellCarriesOver ==
  (/\ last.op = "build"
   /\ Len(args.tt) = 2
   /\ args.tt[1][1].n = 1
   /\ args.tt[2][1].n = 2)
  => AssembledFrom(BuiltCells, args.tt[1][2] \o args.tt[2][2])

\* C20: when the table holds two keys of one slot, the slot's Cells come in
\* ascending order of the keys' numbers whatever the order of the keys in the
\* table: the Cells of the lower-numbered key's subjects, then those of the
\* higher-numbered key's.
C20_AscendingKeyOrder ==
  (last.op = "build" /\ Len(args.tt) = 2)
  => LET lo == CHOOSE i \in 1..2 : \A j \in 1..2 : args.tt[i][1].n <= args.tt[j][1].n
         subjects == SelectSeq(args.tt[lo][2] \o args.tt[3 - lo][2], IsSubject)
     IN /\ Len(BuiltCells) = Len(subjects)
        /\ \A k \in DOMAIN subjects : BuiltCells[k].subject = subjects[k].val

(***************************************************************************)
(* SpecCsrf: _extract_csrf_token on bounded documents.                     *)
(*   MaxInputs  the most <input name="_csrf"> elements of a document       *)
(*   MaxMetas   the most <meta> elements of a document                     *)
(***************************************************************************)
MaxInputs == 2

MaxMetas == 2

InputValues == {None, "", "f1"}

MetaTags ==
  {[name |-> n, content |-> c] :
     n \in {"_csrf", "csrf-token", "csrf", "viewport"}, c \in {"", "m1"}}

Docs ==
  {[inputs |-> i, metas |-> m, js |-> j, uuid |-> u] :
     i \in UNION {[1..n -> InputValues] : n \in 0..MaxInputs},
     m \in UNION {[1..n -> MetaTags] : n \in 0..MaxMetas},
     j \in {None, "j1"}, u \in {None, "u1"}}

InitCsrf ==
  /\ csrf_token \in {None, "h1"}
  /\ cookies = EmptyJar
  /\ subject_mapping = NoMapping
  /\ last = Call("init", None, <<>>, {}, NoHtml, None, NoRet, 0)
  /\ args \in {[NoArgs EXCEPT !.kind = "doc", !.doc = d] : d \in Docs}
  /\ twin = NoTwin
  /\ threads = NoThreads

\* self._extract_csrf_token(html_content); it can be called again
ExtractCall ==
  /\ args.kind = "doc"
  /\ \E t \in {ExtractCsrfToken(PageOf(args.doc))} :
       last' = [Call("extract", IF t.ok THEN None ELSE t.val, <<>>, {}, NoHtml,
                     None, NoRet, 0)
                  EXCEPT !.val = IF t.ok THEN t.val ELSE None]
  /\ UNCHANGED <<csrf_token, cookies, subject_mapping, args, twin, threads>>

NextCsrf == ExtractCall

SpecCsrf == InitCsrf /\ [][NextCsrf]_vars

\* the non-empty candidates of a document in the order of preference: the
\* _csrf inputs, the metas named _csrf, csrf-token and csrf, the inline
\* assignment, the UUID-shaped string
Candidates(doc) ==
  LET NonEmpty(x) == Truthy(x)
      metasOf(n) == SelectSeq(doc.metas, LAMBDA m : m.name = n)
      contents(q) == [i \in DOMAIN q |-> q[i].content]
  IN SelectSeq(doc.inputs
               \o contents(metasOf(MetaNames[1]))
               \o contents(metasOf(MetaNames[2]))
               \o contents(metasOf(MetaNames[3]))
               \o <<doc.js, doc.uuid>>,
               NonEmpty)

\* C13: _extract_csrf_token changes no state, gives the same result when
\* called again, returns the first non-empty candidate in the order input,
\* meta _csrf, meta csrf-token, meta csrf, inline assignment, UUID (so the
\* value of a non-empty _csrf input whenever the page has one), and raises
\* AuthenticationError when there is no candidate.
C13_FirstMatchWins ==
  last.op = "extract"
  => IF Candidates(args.doc) = <<>>
     THEN last.exc = "AuthenticationError"
     ELSE last.exc = None /\ last.val = Candidates(args.doc)[1]

\* C14: a call that finds the mapping cache loaded sends no mapping request
\* and leaves the cache as it is; a call sends at most one request, whatever
\* its number of days and slots; and once a request was sent the cache is
\* loaded, whether the request succeeded, was answered non-OK or raised.
C14_MappingFetchedOnce ==
  [][/\ subject_mapping.init
        => (last'.fetched = 0 /\ subject_mapping' = subject_mapping)
     /\ last'.fetched <= 1
     /\ last'.fetched = 1 => subject_mapping'.init]_vars

\* a fetch_timetable that builds a schedule of several slots on the cache a
\* failed mapping request left empty
C14_Witness ==
  /\ last.op = "fetch"
  /\ last.exc = None
  /\ Len(last.ret.schedule) * Len(last.ret.schedule[1].slots) > 1
  /\ last.fetched = 0
  /\ subject_mapping = [init |-> TRUE, map |-> {}]

\* the schedule with every cell's sub_code emptied
WithoutSubCodes(schedule) ==
  [d \in DOMAIN schedule |->
     [schedule[d] EXCEPT !.slots =
        [x \in DOMAIN schedule[d].slots |->
           [schedule[d].slots[x] EXCEPT !.cells =
              [c \in DOMAIN schedule[d].slots[x].cells |->
                 [schedule[d].slots[x].cells[c] EXCEPT !.sub_code = ""]]]]]]

\* the mapping replies of a failed fetch: raised (a timeout too), or not OK
FailedMappingReplies == {r \in MappingReplies : r.exc # None \/ ~r.ok}

\* the build_schedule result when the mapping is fetched with success
BuiltWithMapping ==
  BuildSchedule("Section A", args.tpl, args.days, args.tt, NoMapping,
                CHOOSE r \in MappingReplies : r.exc = None /\ r.ok /\ r.map = FullMap).ret

\* C15: a build_schedule whose mapping request fails returns normally, with
\* the schedule a successful fetch gives except that every sub_code is "".
C15_FailedLookupKeepsSchedule ==
  last.op = "build"
  => /\ last.exc = None
     /\ (last.fetched = 1 /\ subject_mapping.map = {})
        => last.ret.schedule = WithoutSubCodes(BuiltWithMapping.schedule)
     /\ \A rm \in FailedMappingReplies :
          LET b == BuildSchedule("Section A", args.tpl, args.days, args.tt,
                                 NoMapping, rm)
          IN /\ b.ret.meta = BuiltWithMapping.meta
             /\ b.ret.schedule = WithoutSubCodes(BuiltWithMapping.schedule)

\* a build that sent the request, got no mapping, and has a cell of a subject
\* the mapping knows
C15_Witness ==
  /\ last.op = "build"
  /\ last.fetched = 1
  /\ subject_mapping.map = {}
  /\ \E d \in DOMAIN last.ret.schedule :
       \E x \in DOMAIN last.ret.schedule[d].slots :
         \E c \in DOMAIN last.ret.schedule[d].slots[x].cells :
           /\ last.ret.schedule[d].slots[x].cells[c].code = "CS301"
           /\ last.ret.schedule[d].slots[x].cells[c].sub_code = ""
           /\ last.ret.schedule[d].slots[x].cells[c].faculties # <<>>
           /\ BuiltWithMapping.schedule[d].slots[x].cells[c].sub_code = "ALGO"

(***************************************************************************)
(* SpecTwo: two scrapers with distinct credentials in one process, their   *)
(* calls interleaved.  Each has its own requests.Session and csrf_token    *)
(* (attributes set in __init__); parser._SUBJECT_MAPPING is a module       *)
(* global.  Beside each scraper runs its solo copy, which gets the same    *)
(* replies but has the parser module to itself.                            *)
(***************************************************************************)
TwoRootReplies ==
  {Reply(200, [BlankPage EXCEPT !.form = LoginForm("f1"),
                                !.inp = "f1", !.marks = {"j_username", "login"}],
         FALSE, "none")}

TwoPostReplies ==
  {Reply(200, WithToken("h1"), FALSE, "sess"),
   Reply(200, BlankPage, FALSE, "xsrf"),
   Reply(200, WithMarks({"j_username"}), FALSE, "none")}

TwoWarmUpReplies == {Reply(200, BlankPage, FALSE, "none")}

TwoProfileReplies == {Reply(200, WithToken("h2"), FALSE, "none"), Raises("ConnectionError")}

TwoAdminReplies == {AdminReply(200, GoodPage), AdminRaises("ConnectionError")}

TwoLogoutReplies == {Reply(200, BlankPage, FALSE, "clear"), Raises("ConnectionError")}

\* one call on a scraper's token and cookies and on a mapping cache: what it
\* leaves of the three, and its record
RunLogin(tok, jar, cache, r0, rp, rsem) ==
  With(Login(jar, r0, rp, NoReply, rsem), LAMBDA d :
    [csrf_token |-> TokenStored(d, tok),
     cookies |-> d.jar,
     subject_mapping |-> cache,
     last |-> Call("login", d.exc, d.reqs, d.marks, NoHtml, None, NoRet, 0)])

RunFetch(tok, jar, cache, rp1, rsem, radm, rm) ==
  With(FetchTimetable(tok, jar, cache, rp1, NoReply, rsem, radm, rm), LAMBDA f :
    [csrf_token |-> f.tok,
     cookies |-> f.jar,
     subject_mapping |-> f.cache,
     last |-> Call("fetch", f.exc, f.reqs, {}, f.html, f.var, f.ret, f.fetched)])

RunLogout(tok, jar, cache, rlo) ==
  With(Logout(jar, tok, rlo), LAMBDA d :
    [csrf_token |-> d.tok,
     cookies |-> d.jar,
     subject_mapping |-> cache,
     last |-> Call("logout", d.exc, d.reqs, {}, NoHtml, None, NoRet, 0)])

\* scraper 1 is held by csrf_token, cookies and last, scraper 2 by twin.peer
Scraper(i) ==
  IF i = 1 THEN [csrf_token |-> csrf_token, cookies |-> cookies, last |-> last]
  ELSE twin.peer

\* faulty variant: the session a class attribute, so every scraper uses the
\* cookie jar of the first
SelfWithClassSession(i) == [Scraper(i) EXCEPT !.cookies = Scraper(1).cookies]

\* what `self` stands for in a method called on scraper i
Self(i) == Scraper(i)

\* twin after a call on scraper i left r and the same call on its solo copy s
TwinAfter(i, r, s) ==
  IF i = 1 THEN [twin EXCEPT !.solo[1] = s]
  ELSE [twin EXCEPT !.peer = [csrf_token |-> r.csrf_token, cookies |-> r.cookies,
                              last |-> r.last],
                    !.solo[2] = s]

\* the mapping request raising, and answered with the mapping
TwoMappingReplies ==
  {r \in MappingReplies : r.exc # None \/ (r.ok /\ r.map = FullMap)}

\* scraper i's login(), and the same call on its solo copy
TwoLoginCall ==
  \E i \in {1, 2} :
  \E r0 \in TwoRootReplies : \E rp \in TwoPostReplies : \E rsem \in TwoWarmUpReplies :
  \E r \in {RunLogin(Self(i).csrf_token, Self(i).cookies, subject_mapping,
                     r0, rp, rsem)} :
  \E s \in {RunLogin(twin.solo[i].csrf_token, twin.solo[i].cookies,
                     twin.solo[i].subject_mapping, r0, rp, rsem)} :
    /\ subject_mapping' = r.subject_mapping
    /\ csrf_token' = IF i = 1 THEN r.csrf_token ELSE csrf_token
    /\ cookies' = IF i = 1 THEN r.cookies ELSE cookies
    /\ last' = IF i = 1 THEN r.last ELSE last
    /\ twin' = TwinAfter(i, r, s)
    /\ UNCHANGED <<args, threads>>

\* scraper i's fetch_timetable(), and the same call on its solo copy
TwoFetchCall ==
  \E i \in {1, 2} :
  \E rp1 \in TwoProfileReplies : \E rsem \in TwoWarmUpReplies :
  \E radm \in TwoAdminReplies : \E rm \in TwoMappingReplies :
  \E r \in {RunFetch(Self(i).csrf_token, Self(i).cookies, subject_mapping,
                     rp1, rsem, radm, rm)} :
  \E s \in {RunFetch(twin.solo[i].csrf_token, twin.solo[i].cookies,
                     twin.solo[i].subject_mapping, rp1, rsem, radm, rm)} :
    /\ subject_mapping' = r.subject_mapping
    /\ csrf_token' = IF i = 1 THEN r.csrf_token ELSE csrf_token
    /\ cookies' = IF i = 1 THEN r.cookies ELSE cookies
    /\ last' = IF i = 1 THEN r.last ELSE last
    /\ twin' = TwinAfter(i, r, s)
    /\ UNCHANGED <<args, threads>>

\* scraper i's logout(), and the same call on its solo copy
TwoLogoutCall ==
  \E i \in {1, 2} :
  \E rlo \in TwoLogoutReplies :
  \E r \in {RunLogout(Self(i).csrf_token, Self(i).cookies, subject_mapping, rlo)} :
  \E s \in {RunLogout(twin.solo[i].csrf_token, twin.solo[i].cookies,
                      twin.solo[i].subject_mapping, rlo)} :
    /\ subject_mapping' = r.subject_mapping
    /\ csrf_token' = IF i = 1 THEN r.csrf_token ELSE csrf_token
    /\ cookies' = IF i = 1 THEN r.cookies ELSE cookies
    /\ last' = IF i = 1 THEN r.last ELSE last
    /\ twin' = TwinAfter(i, r, s)
    /\ UNCHANGED <<args, threads>>

NextTwo == TwoLoginCall \/ TwoFetchCall \/ TwoLogoutCall

SpecTwo == Init /\ [][NextTwo]_vars

\* C16 as stated: each scraper's csrf_token, cookies and returned schedule
\* are those of its run alone.
C16_Independent ==
  \A i \in {1, 2} :
    /\ Scraper(i).csrf_token = twin.solo[i].csrf_token
    /\ Scraper(i).cookies = twin.solo[i].cookies
    /\ Scraper(i).last.ret = twin.solo[i].last.ret

\* C16 as amended: each scraper's csrf_token, cookies, requests and outcome
\* are those of its run alone, and so is its schedule but for the sub_code of
\* its cells, which comes from the mapping cache the two scrapers share.
C16_IndependentButForMapping ==
  \A i \in {1, 2} :
    /\ Scraper(i).csrf_token = twin.solo[i].csrf_token
    /\ Scraper(i).cookies = twin.solo[i].cookies
    /\ Scraper(i).last.op = twin.solo[i].last.op
    /\ Scraper(i).last.exc = twin.solo[i].last.exc
    /\ Scraper(i).last.reqs = twin.solo[i].last.reqs
    /\ Scraper(i).last.ret.meta = twin.solo[i].last.ret.meta
    /\ WithoutSubCodes(Scraper(i).last.ret.schedule)
         = WithoutSubCodes(twin.solo[i].last.ret.schedule)

\* both scrapers logged in with different cookies and fetched a schedule, the
\* second one's with other sub_codes than alone
C16_Witness ==
  /\ last.op = "fetch" /\ last.exc = None
  /\ twin.peer.last.op = "fetch" /\ twin.peer.last.exc = None
  /\ cookies # twin.peer.cookies
  /\ twin.peer.last.ret.schedule # twin.solo[2].last.ret.schedule
  /\ twin.peer.last.fetched = 0

(***************************************************************************)
(* app.py, timetable_to_ics, on the timetable build_schedule returned.     *)
(* The calendar text is kept as the sequence of its VEVENT blocks, each    *)
(* with the code, day name and orderedBy that make its UID, its start and  *)
(* end clock times, and the BYDAY token of its RRULE:FREQ=WEEKLY line      *)
(* (None: no RRULE line).                                                  *)
(***************************************************************************)
\* _DAY_TO_BYDAY.get(day_name); _DAY_NAME_TO_INDEX has the same keys
DayToByday(day_name) ==
  CASE day_name = "Monday"    -> "MO"
    [] day_name = "Tuesday"   -> "TU"
    [] day_name = "Wednesday" -> "WE"
    [] day_name = "Thursday"  -> "TH"
    [] day_name = "Friday"    -> "FR"
    [] day_name = "Saturday"  -> "SA"
    [] day_name = "Sunday"    -> "SU"
    [] OTHER                  -> None

\* _parse_time_range(label): <<sh, sm, eh, em>>, or <<>> for None
ParseTimeRange(label) ==
  CASE label = "09:00 AM-09:45 AM" -> <<9, 0, 9, 45>>
    [] label = "25:00-26:00"       -> <<25, 0, 26, 0>>
    [] OTHER                       -> <<>>

\* datetime(year, month, day, h, m, 0) accepts the clock time
ValidClock(t) == t[1] <= 23 /\ t[2] <= 59 /\ t[3] <= 23 /\ t[4] <= 59

\* code = c.get("code") or (c.get("subject") or ""); if not code: c.get("name") or ""
CellCode(c) ==
  IF c.code # "" THEN c.code ELSE IF c.subject # "" THEN c.subject ELSE c.name

\* faulty variant: no cell counts as seen
NeverSeen(code, seen) == FALSE

\* if code in seen: continue
SeenBefore(code, seen) == code \in seen

\* the loop over one slot's cells from cell i on
RECURSIVE SlotEvents(_, _, _, _, _, _, _)
SlotEvents(cells, i, seen, out, day_name, slot, t) ==
  IF i > Len(cells) THEN out
  ELSE LET code == CellCode(cells[i]) IN
    IF SeenBefore(code, seen)
    THEN SlotEvents(cells, i + 1, seen, out, day_name, slot, t)
    ELSE SlotEvents(cells, i + 1, seen \cup {code},
           Append(out, [code |-> code, day |-> day_name, orderedBy |-> slot.orderedBy,
                        start |-> <<t[1], t[2]>>, stop |-> <<t[3], t[4]>>,
                        byday |-> DayToByday(day_name)]),
           day_name, slot, t)

\* the slots timetable_to_ics passes over: breaks and labels that are no range
SkipsSlot(s) == s.slot.status = 1 \/ ParseTimeRange(s.slot.label) = <<>>

\* the loops over days and slots from slot x of day d on: the events, or the
\* ValueError of datetime() at the first cell of a slot with no valid time
RECURSIVE IcsFrom(_, _, _, _)
IcsFrom(schedule, d, x, out) ==
  IF d > Len(schedule) THEN [exc |-> None, events |-> out]
  ELSE IF DayToByday(schedule[d].day) = None \/ x > Len(schedule[d].slots)
  THEN IcsFrom(schedule, d + 1, 1, out)
  ELSE LET s == schedule[d].slots[x] IN
    IF SkipsSlot(s) THEN IcsFrom(schedule, d, x + 1, out)
    ELSE IF s.cells # <<>> /\ ~ValidClock(ParseTimeRange(s.slot.label))
    THEN [exc |-> "ValueError", events |-> <<>>]
    ELSE IcsFrom(schedule, d, x + 1,
                 SlotEvents(s.cells, 1, {}, out, schedule[d].day, s.slot,
                            ParseTimeRange(s.slot.label)))

TimetableToIcs(timetable) == IcsFrom(timetable.schedule, 1, 1, <<>>)

(***************************************************************************)
(* SpecIcs: build_schedule, then timetable_to_ics on what it returned.     *)
(*   MaxIcsEntries  the longest entry list of a subject-table key          *)
(***************************************************************************)
MaxIcsEntries == 3

IcsTemplates ==
  {<<Item(1, 0, None), Item(2, 1, None), Item(3, 0, "Late")>>,
   <<Item(1, 0, None), Item(2, 1, None), Item(3, 0, "Late"),
     Item(4, 0, "25:00-26:00")>>}

IcsDayLists ==
  {<<>>, <<"Monday">>, <<"Monday", "Funday">>, <<"Funday", "Tuesday">>}

IcsEntryLists ==
  UNION {[1..k -> {Subject("CS301-Algorithms"), Subject("LAB"), Faculty("Dr. X")}] :
           k \in 0..MaxIcsEntries}

IcsTables ==
  {<<>>} \cup {<<<<Key(d, o, 1), e>>>> : d \in 1..2, o \in 1..4, e \in IcsEntryLists}

InitIcs ==
  /\ csrf_token = "h1"
  /\ cookies = [EmptyJar EXCEPT !.sess = TRUE]
  /\ subject_mapping = [init |-> TRUE, map |-> FullMap]
  /\ last = Call("init", None, <<>>, {}, NoHtml, None, NoRet, 0)
  /\ args \in {[NoArgs EXCEPT !.kind = "values", !.tpl = t, !.days = d, !.tt = j] :
                 t \in IcsTemplates, d \in IcsDayLists, j \in IcsTables}
  /\ twin = NoTwin
  /\ threads = NoThreads

\* timetable_to_ics(data) on the dict the last build_schedule returned
IcsCall ==
  /\ last.op = "build"
  /\ \E c \in {TimetableToIcs(last.ret)} :
       last' = [last EXCEPT !.op = "ics", !.exc = c.exc, !.events = c.events]
  /\ UNCHANGED <<csrf_token, cookies, subject_mapping, args, twin, threads>>

NextIcs == BuildCall \/ IcsCall

SpecIcs == InitIcs /\ [][NextIcs]_vars

\* the slots of the converted timetable that give events: <<d, x>> with a
\* recognised day name, no break, and a label that is a time range
EventSlots ==
  {dx \in (DOMAIN last.ret.schedule) \X (1..4) :
     /\ DayToByday(last.ret.schedule[dx[1]].day) # None
     /\ dx[2] \in DOMAIN last.ret.schedule[dx[1]].slots
     /\ last.ret.schedule[dx[1]].slots[dx[2]].slot.status # 1
     /\ ParseTimeRange(last.ret.schedule[dx[1]].slots[dx[2]].slot.label) # <<>>}

\* the VEVENT blocks written for slot dx
EventsOf(dx) ==
  SelectSeq(last.events,
            LAMBDA e : /\ e.day = last.ret.schedule[dx[1]].day
                       /\ e.orderedBy =
                            last.ret.schedule[dx[1]].slots[dx[2]].slot.orderedBy)

\* C17 as stated: every such slot has one VEVENT per Cell, each with the
\* weekly rule on the day's BYDAY token.
C17_OneEventPerCell ==
  last.op = "ics"
  => \A dx \in EventSlots :
       /\ Len(EventsOf(dx)) = Len(last.ret.schedule[dx[1]].slots[dx[2]].cells)
       /\ \A k \in DOMAIN EventsOf(dx) :
            EventsOf(dx)[k].byday = DayToByday(last.ret.schedule[dx[1]].day)

\* C17 as amended: when some such slot has a cell and a label whose times are
\* no clock times the call raises ValueError; otherwise it returns, every such
\* slot has one VEVENT per distinct cell code, each with the weekly rule on the
\* day's BYDAY token, and no other VEVENT is written.
C17_OneEventPerCode ==
  last.op = "ics"
  => IF \E dx \in EventSlots :
          LET s == last.ret.schedule[dx[1]].slots[dx[2]]
          IN s.cells # <<>> /\ ~ValidClock(ParseTimeRange(s.slot.label))
     THEN last.exc = "ValueError"
     ELSE /\ last.exc = None
          /\ \A dx \in EventSlots :
               LET s == last.ret.schedule[dx[1]].slots[dx[2]] IN
               /\ Len(EventsOf(dx))
                    = Cardinality({CellCode(s.cells[c]) : c \in DOMAIN s.cells})
               /\ \A k \in DOMAIN EventsOf(dx) :
                    /\ EventsOf(dx)[k].byday = DayToByday(last.ret.schedule[dx[1]].day)
                    /\ \E c \in DOMAIN s.cells : CellCode(s.cells[c]) = EventsOf(dx)[k].code
          /\ \A k \in DOMAIN last.events :
               \E dx \in EventSlots :
                 /\ last.events[k].day = last.ret.schedule[dx[1]].day
                 /\ last.events[k].orderedBy =
                      last.ret.schedule[dx[1]].slots[dx[2]].slot.orderedBy

\* a Tuesday slot with two cells of one code and one of another: two events
C17_Witness ==
  /\ last.op = "ics"
  /\ last.exc = None
  /\ Len(last.ret.schedule) = 2
  /\ Len(last.ret.schedule[2].slots[1].cells) = 3
  /\ Len(last.events) = 2
  /\ \A k \in DOMAIN last.events : last.events[k].byday = "TU"

(***************************************************************************)
(* app.py, fetch_live_timetable: a scraper of its own, login, profile      *)
(* context, fetch, and logout in the finally clause.  csrf_token and       *)
(* cookies hold what the call's scraper is left with; last.val is the      *)
(* exception the try block ended with, last.exc the one the caller gets.   *)
(***************************************************************************)
LiveRootReplies == RootReplies

LiveProfileReplies == TwoProfileReplies \cup {Reply(200, BlankPage, FALSE, "none")}

LiveAdminReplies == AdminReplies

\* lines 176-180: the try block, up to the first call that raises
TryBlock(cache, r0, rp, rsem, rp1, rp2, rsem2, radm, rm) ==
  With(Login(EmptyJar, r0, rp, NoReply, rsem), LAMBDA d :
    IF d.exc # None
    THEN Fetched(d.exc, None, d.jar, d.reqs, NoHtml, None, NoRet, cache, 0)
    ELSE With(PrepareProfileContext(d.jar, FALSE, NoReply, rp1, rp2, rsem2),
      LAMBDA p :
        IF p.exc # None
        THEN Fetched(p.exc, d.tok, p.jar, d.reqs \o p.reqs, NoHtml, None, NoRet,
                     cache, 0)
        ELSE With(FetchTimetable(p.tok, p.jar, cache, NoReply, NoReply, NoReply,
                                 radm, rm),
          LAMBDA f : [f EXCEPT !.reqs = d.reqs \o p.reqs \o f.reqs])))

\* faulty variant: what logout raises leaves the finally clause
LogoutPropagates(k) == k

\* lines 182-185: `except Exception` around scraper.logout()
LogoutSwallowed(k) == None

\* fetch_live_timetable(username, password)
FetchLiveTimetable(cache, r0, rp, rsem, rp1, rp2, rsem2, radm, rm, rlo) ==
  With(TryBlock(cache, r0, rp, rsem, rp1, rp2, rsem2, radm, rm), LAMBDA t :
    With(Logout(t.jar, t.tok, rlo), LAMBDA lo :
      With(LogoutSwallowed(lo.exc), LAMBDA k :
        [t EXCEPT !.exc = IF k # None THEN k ELSE t.exc,
                  !.jar = lo.jar,
                  !.tok = lo.tok,
                  !.reqs = t.reqs \o lo.reqs,
                  !.ret = IF k # None THEN NoRet ELSE t.ret,
                  !.var = t.exc])))

LiveCall ==
  \E r0 \in LiveRootReplies :
  \E rp \in IF PostSent(EmptyJar, r0) THEN TwoPostReplies ELSE {NoReply} :
  \E rsem \in IF HasRequest(Login(EmptyJar, r0, rp, NoReply, NoReply).reqs, "semesters")
              THEN TwoWarmUpReplies ELSE {NoReply} :
  \E d \in {Login(EmptyJar, r0, rp, NoReply, rsem)} :
  \E rp1 \in IF d.exc = None THEN LiveProfileReplies ELSE {NoReply} :
  \E rp2 \in IF d.exc = None /\ ProfileRetried(d.jar, rp1)
             THEN LiveProfileReplies ELSE {NoReply} :
  \E rsem2 \in IF d.exc = None /\ WarmUpSent(d.jar, rp1, rp2)
               THEN TwoWarmUpReplies ELSE {NoReply} :
  \E radm \in IF d.exc = None /\ WarmUpSent(d.jar, rp1, rp2)
              THEN LiveAdminReplies ELSE {AdminRaises("unused")} :
  \E rm \in IF ~subject_mapping.init /\ Builds(radm)
            THEN TwoMappingReplies ELSE {CHOOSE r \in TwoMappingReplies : TRUE} :
  \E rlo \in LogoutReplies :
  \E f \in {FetchLiveTimetable(subject_mapping, r0, rp, rsem, rp1, rp2, rsem2,
                               radm, rm, rlo)} :
    /\ csrf_token' = f.tok
    /\ cookies' = f.jar
    /\ subject_mapping' = f.cache
    /\ last' = [Call("live", f.exc, f.reqs, {}, f.html, None, f.ret, f.fetched)
                  EXCEPT !.val = f.var]
    /\ UNCHANGED <<args, twin, threads>>

NextLive == LiveCall

SpecLive == Init /\ [][NextLive]_vars

\* C18: on every path of fetch_live_timetable - login raising, the profile
\* context raising, the fetch raising, success - the log holds exactly one
\* logout request, it is the last request, and the caller gets the outcome of
\* the try block whatever logout did: its exception, or the schedule.
C18_LogoutOnceAndLast ==
  last.op = "live"
  => /\ CountUrl(last.reqs, "logout") = 1
     /\ last.reqs[Len(last.reqs)].url = "logout"
     /\ last.exc = last.val
     /\ ~HasRequest(last.reqs, "admin") => last.exc # None
     /\ (last.exc = None) = (last.ret # NoRet)

\* login raised and, after it, logout raised an OSError
C18_Witness ==
  /\ last.op = "live"
  /\ last.exc = "AuthenticationError"
  /\ ~HasRequest(last.reqs, "profile")
  /\ Len(last.reqs) > 1
  /\ last.reqs[Len(last.reqs)].failed
  /\ \E rlo \in LogoutReplies : Logout(cookies, csrf_token, rlo).exc = "OSError"

(***************************************************************************)
(* SpecLogin: login() against a landing page given in args.reply, called   *)
(* any number of times on one scraper, so that cookies of earlier calls    *)
(* are in the jar.                                                         *)
(*   MaxFormExtras  how many inputs a login form has after LoginFields     *)
(***************************************************************************)
MaxFormExtras == 1

FormExtras ==
  UNION {[1..k -> {<<"_csrf", "f2">>, <<"_csrf", "">>, <<"j_username", "evil">>,
                   <<"j_password", "evil">>, <<"remember", "on">>, <<"", "x">>}] :
           k \in 0..MaxFormExtras}

LoginForms ==
  {NoForm} \cup
  {[LoginForm(c) EXCEPT !.others = LoginFields \o x] :
     c \in {None, "", "f1"}, x \in FormExtras}

\* the value of the first _csrf input of the form, None without one
FirstFormCsrf(form) ==
  LET all == (IF form.csrf = None THEN <<>> ELSE <<<<"_csrf", form.csrf>>>>)
               \o form.others
      at  == {i \in DOMAIN all : all[i][1] = "_csrf"}
  IN IF at = {} THEN None ELSE all[CHOOSE i \in at : \A j \in at : i <= j][2]

\* landing pages: the first _csrf input of the page is the form's, or one
\* before the form ("g1")
FormLandingPages ==
  {[BlankPage EXCEPT !.form = f, !.inp = i, !.meta = m,
                     !.marks = IF f.present THEN {"j_username", "login"} ELSE {}] :
     f \in LoginForms, i \in {None, "", "f1", "f2", "g1"},
     m \in {<<None, None, None>>, <<None, "h0", None>>}}

LandingReplySet ==
  {Reply(200, p, FALSE, c) :
     p \in {q \in FormLandingPages : q.inp \in {FirstFormCsrf(q.form), "g1"}},
     c \in {"none", "xsrf", "csrf"}}

InitLogin ==
  /\ csrf_token = None
  /\ cookies = EmptyJar
  /\ subject_mapping = NoMapping
  /\ last = Call("init", None, <<>>, {}, NoHtml, None, NoRet, 0)
  /\ args \in {[NoArgs EXCEPT !.kind = "reply", !.reply = r] : r \in LandingReplySet}
  /\ twin = NoTwin
  /\ threads = NoThreads

\* scraper.login(), the portal answering the first GET with args.reply
LandingLoginCall ==
  \E r0 \in {args.reply} :
  \E rp \in IF PostSent(cookies, r0) THEN TwoPostReplies ELSE {NoReply} :
  \E rsem \in IF HasRequest(Login(cookies, r0, rp, NoReply, NoReply).reqs, "semesters")
              THEN TwoWarmUpReplies ELSE {NoReply} :
  \E d \in {Login(cookies, r0, rp, NoReply, rsem)} :
    /\ csrf_token' = TokenStored(d, csrf_token)
    /\ cookies' = d.jar
    /\ last' = Call("login", d.exc, d.reqs, d.marks, NoHtml, None, NoRet, 0)
    /\ UNCHANGED <<subject_mapping, args, twin, threads>>

NextLogin == LandingLoginCall

SpecLogin == InitLogin /\ [][NextLogin]_vars

\* the value form_inputs holds for _csrf: that of the form's last _csrf input
LastFormCsrf(form) ==
  LET all == (IF form.csrf = None THEN <<>> ELSE <<<<"_csrf", form.csrf>>>>)
               \o form.others
      at  == {i \in DOMAIN all : all[i][1] = "_csrf"}
  IN IF ~form.present \/ at = {} THEN None
     ELSE all[CHOOSE i \in at : \A j \in at : i >= j][2]

\* the four sources of the claim, in its order, for a landing reply and the
\* jar the call started with
CsrfSources(r0, jar) ==
  <<LastFormCsrf(r0.page.form), ExtractCsrfOrNone(r0.page),
    SetCookies(jar, r0.setc).xsrf, SetCookies(jar, r0.setc).csrf>>

FirstTruthy(srcs) ==
  IF \E i \in DOMAIN srcs : Truthy(srcs[i])
  THEN srcs[CHOOSE i \in DOMAIN srcs :
              Truthy(srcs[i]) /\ \A j \in 1..(i - 1) : ~Truthy(srcs[j])]
  ELSE None

\* the values a payload holds under a name
Sent(data, name) == {p[2] : p \in {q \in data : q[1] = name}}

EntriesOfDay(tt, d) ==
  UNION {{tt[t][2][e] : e \in DOMAIN tt[t][2]} :
           t \in {u \in DOMAIN tt : tt[u][1].pfx = "ttDivText" /\ tt[u][1].d = d}}

\* the last template item with order key k
LastItem(tpl, k) ==
  tpl[CHOOSE i \in DOMAIN tpl :
        tpl[i].orderedBy = k /\ \A j \in DOMAIN tpl : tpl[j].orderedBy = k => j <= i]

\* C21: build_schedule returns one Day per day name, in order, the i-th with
\* cells made only of entries under keys of day index i; all Days have the
\* same slots; the slots' order keys ascend strictly; and a slot has the label
\* and status of the last template item with its order key.
C21_ScheduleShape ==
  last.op = "build"
  => LET sch == last.ret.schedule IN
     /\ Len(sch) = Len(args.days)
     /\ \A i \in DOMAIN sch :
          /\ sch[i].day = args.days[i]
          /\ \A j \in DOMAIN sch[i].slots :
             \A c \in DOMAIN sch[i].slots[j].cells :
             \A e \in DOMAIN sch[i].slots[j].cells[c].raw :
               sch[i].slots[j].cells[c].raw[e] \in EntriesOfDay(args.tt, i)
          /\ [j \in DOMAIN sch[i].slots |-> sch[i].slots[j].slot]
               = [j \in DOMAIN sch[1].slots |-> sch[1].slots[j].slot]
          /\ \A j, k \in DOMAIN sch[i].slots :
               j < k => sch[i].slots[j].slot.orderedBy < sch[i].slots[k].slot.orderedBy
          /\ \A j \in DOMAIN sch[i].slots :
               LET m == sch[i].slots[j].slot IN
               /\ \E x \in DOMAIN args.tpl : args.tpl[x].orderedBy = m.orderedBy
               /\ m.status = LastItem(args.tpl, m.orderedBy).status
               /\ m.label = SlotLabel(LastItem(args.tpl, m.orderedBy))

\* two days built from a template with one order key twice, a lesson first and
\* a break last, and a table with cells on the second day
C21_Witness ==
  /\ last.op = "build"
  /\ Len(last.ret.schedule) = 2
  /\ Len(args.tpl) = 2
  /\ args.tpl[1].orderedBy = args.tpl[2].orderedBy
  /\ args.tpl[1].status = 0
  /\ Len(last.ret.schedule[2].slots) = 1
  /\ last.ret.schedule[2].slots[1].slot.status = 1
  /\ last.ret.schedule[2].slots[1].cells # <<>>
  /\ last.ret.schedule[1].slots[1].cells = <<>>

(***************************************************************************)
(* SpecPrepare: _prepare_profile_context on a scraper with any cookies and *)
(* any stored token.  The portal answers the profile GET with args.reply   *)
(* and a second profile GET with args.retry; args.reply is also the        *)
(* response handed over as initial_response, and the response login()      *)
(* gets to its POST.  last.val is the token the call returned.             *)
(***************************************************************************)
PrepareJars ==
  {[xsrf |-> x, csrf |-> c, sess |-> b] :
     x \in {None, "c1"}, c \in {None, "c2"}, b \in BOOLEAN}

PreparePages == {BlankPage, WithToken("h2"), [BlankPage EXCEPT !.meta = <<None, "h0", None>>]}

PrepareReplies ==
  {Raises("ConnectionError"), Reply(500, BlankPage, FALSE, "none"),
   Reply(500, WithToken("h2"), FALSE, "sess")}
  \cup {Reply(200, q, FALSE, c) : q \in PreparePages, c \in {"none", "xsrf", "csrf"}}

RetryReplies ==
  {Raises("Timeout"), Reply(500, BlankPage, FALSE, "none"),
   Reply(200, BlankPage, FALSE, "xsrf"), Reply(200, WithToken("h3"), FALSE, "none")}

SemestersReplies ==
  WarmUpReplies \cup {Raises("ConnectionError"), Raises("OSError"),
                      Reply(200, WithToken("h4"), FALSE, "xsrf")}

InitPrepare ==
  /\ csrf_token \in {None, "h9"}
  /\ cookies \in PrepareJars
  /\ subject_mapping = NoMapping
  /\ last = Call("init", None, <<>>, {}, NoHtml, None, NoRet, 0)
  /\ args \in {[NoArgs EXCEPT !.kind = "reply", !.reply = r, !.retry = y] :
                 r \in PrepareReplies, y \in RetryReplies}
  /\ twin = NoTwin
  /\ threads = NoThreads

\* scraper.csrf_token = scraper._prepare_profile_context()
PrepareOnCall ==
  \E rsem \in IF WarmUpSent(cookies, args.reply, args.retry)
              THEN SemestersReplies ELSE {NoReply} :
  \E d \in {PrepareProfileContext(cookies, FALSE, NoReply, args.reply, args.retry,
                                  rsem)} :
    /\ csrf_token' = IF d.exc = None THEN d.tok ELSE csrf_token
    /\ cookies' = d.jar
    /\ last' = [Call("prepare", d.exc, d.reqs, {}, NoHtml, None, NoRet, 0)
                  EXCEPT !.val = d.tok]
    /\ UNCHANGED <<subject_mapping, args, twin, threads>>

\* scraper._prepare_profile_context(initial_response=r), r a response got before
PrepareGivenCall ==
  /\ args.reply.exc = None
  /\ \E rsem \in SemestersReplies :
     \E d \in {PrepareProfileContext(cookies, TRUE, args.reply, NoReply, NoReply,
                                     rsem)} :
       /\ cookies' = d.jar
       /\ last' = [Call("given", d.exc, d.reqs, {}, NoHtml, None, NoRet, 0)
                     EXCEPT !.val = d.tok]
  /\ UNCHANGED <<csrf_token, subject_mapping, args, twin, threads>>

\* scraper.login(), the POST answered with args.reply
LoginGivenCall ==
  \E r0 \in TwoRootReplies :
  \E rsem \in SemestersReplies :
  \E d \in {Login(cookies, r0, args.reply, NoReply, rsem)} :
    /\ csrf_token' = TokenStored(d, csrf_token)
    /\ cookies' = d.jar
    /\ last' = [Call("login", d.exc, d.reqs, d.marks, NoHtml, None, NoRet, 0)
                  EXCEPT !.val = IF d.exc = None THEN d.tok ELSE None]
    /\ UNCHANGED <<subject_mapping, args, twin, threads>>

NextPrepare == PrepareOnCall \/ PrepareGivenCall \/ LoginGivenCall

SpecPrepare == InitPrepare /\ [][NextPrepare]_vars

\* the profile GET or its retry gave the page of a _prepare_profile_context()
\* call whose requests are rq
GotPage(rq) ==
  /\ HasRequest(rq, "profile")
  /\ \A i \in DOMAIN rq :
       (rq[i].url = "profile" /\ \A j \in DOMAIN rq : rq[j].url = "profile" => j <= i)
       => ~rq[i].failed

\* the response that call read, and the jar at that moment
PageRead(rq) == IF CountUrl(rq, "profile") = 2 THEN args.retry ELSE args.reply

JarRead(rq) ==
  IF CountUrl(rq, "profile") = 2
  THEN SetCookies(SetCookies(cookies, args.reply.setc), args.retry.setc)
  ELSE SetCookies(cookies, args.reply.setc)

\* C22: a _prepare_profile_context() that got its page returns the page's
\* token when the page has one, whatever the cookies, else the XSRF-TOKEN
\* cookie, else the CSRF-TOKEN cookie; with none of the three it raises
\* AuthenticationError, sends no semesters request and leaves the stored
\* token as it was.
C22_ContextToken ==
  [][(last'.op = "prepare" /\ GotPage(last'.reqs))
     => LET t == FirstTruthy(<<ExtractCsrfOrNone(PageRead(last'.reqs).page),
                               JarRead(last'.reqs).xsrf, JarRead(last'.reqs).csrf>>)
        IN IF t = None
           THEN /\ last'.exc = "AuthenticationError"
                /\ ~HasRequest(last'.reqs, "semesters")
                /\ csrf_token' = csrf_token
           ELSE /\ last'.exc = None
                /\ last'.val = t]_vars

\* the page's token returned although both cookies hold another
C22_Witness ==
  /\ last.op = "prepare"
  /\ last.exc = None
  /\ last.val = "h2"
  /\ cookies.xsrf = "c1"
  /\ cookies.csrf = "c2"
  /\ args.reply.setc = "none"
  /\ CountUrl(last.reqs, "profile") = 1

\* C23: a _prepare_profile_context call that returns has sent exactly one
\* semesters request, with the returned token; a call that sent one returns,
\* whatever the request's outcome.
C23_OneWarmUp ==
  last.op \in {"prepare", "given"}
  => /\ last.exc = None => CountUrl(last.reqs, "semesters") = 1
     /\ \A i \in DOMAIN last.reqs :
          last.reqs[i].url = "semesters"
          => /\ last.exc = None
             /\ last.reqs[i].tok = last.val
             /\ Truthy(last.val)

\* a call that returned its token after the semesters request failed
C23_Witness ==
  /\ last.op = "prepare"
  /\ last.exc = None
  /\ last.val = "c2"
  /\ \E i \in DOMAIN last.reqs : last.reqs[i].url = "semesters" /\ last.reqs[i].failed

\* C24: given a response, _prepare_profile_context sends no profile request
\* and reads the token from the given response; given none, it sends one; and
\* a login() that returns has sent no profile request.
C24_GivenResponseReused ==
  [][/\ last'.op = "given"
          => /\ ~HasRequest(last'.reqs, "profile")
             /\ last'.val = FirstTruthy(<<ExtractCsrfOrNone(args.reply.page),
                                          cookies.xsrf, cookies.csrf>>)
     /\ last'.op = "prepare" => HasRequest(last'.reqs, "profile")
     /\ (last'.op = "login" /\ last'.exc = None)
          => ~HasRequest(last'.reqs, "profile")]_vars

\* a login that returned with the token of the POST's response
C24_Witness ==
  /\ last.op = "login"
  /\ last.exc = None
  /\ last.val = "h2"
  /\ csrf_token = "h2"
  /\ HasRequest(last.reqs, "semesters")

(***************************************************************************)
(* The requests of fetch_timetable, over Spec.                             *)
(***************************************************************************)
\* C25 as stated: the context is prepared exactly when no token is stored;
\* exactly one admin request is sent, the last, with the token then stored;
\* and with a token stored the call leaves it and sends no other request.
C25_FetchRequests ==
  [][last'.op = "fetch"
     => /\ HasRequest(last'.reqs, "profile") = ~Truthy(csrf_token)
        /\ CountUrl(last'.reqs, "admin") = 1
        /\ last'.reqs[Len(last'.reqs)].url = "admin"
        /\ last'.reqs[Len(last'.reqs)].tok = csrf_token'
        /\ Truthy(csrf_token)
             => /\ csrf_token' = csrf_token
                /\ Len(last'.reqs) = 1
                /\ last'.fetched = 0]_vars

\* C25 as amended: the context is prepared exactly when no token is stored;
\* when the preparation raises, the call raises with it, sends no admin
\* request and leaves the token unset; otherwise exactly one admin request is
\* sent, the last of the portal, with the token then stored; with a token
\* stored the call leaves it and sends the portal no other request, and the
\* only further request is the one for the label mapping, sent when the page
\* was parsed and the mapping not yet loaded.
C25_FetchRequestsOrMapping ==
  [][last'.op = "fetch"
     => /\ HasRequest(last'.reqs, "profile") = ~Truthy(csrf_token)
        /\ CountUrl(last'.reqs, "admin") <= 1
        /\ CountUrl(last'.reqs, "admin") = 0
             => /\ ~Truthy(csrf_token)
                /\ last'.exc # None
                /\ csrf_token' = csrf_token
        /\ CountUrl(last'.reqs, "admin") = 1
             => /\ last'.reqs[Len(last'.reqs)].url = "admin"
                /\ last'.reqs[Len(last'.reqs)].tok = csrf_token'
                /\ Truthy(csrf_token')
        /\ Truthy(csrf_token)
             => /\ csrf_token' = csrf_token
                /\ Len(last'.reqs) = 1
        /\ last'.fetched <= 1
        /\ last'.fetched = 1 => (last'.exc = None /\ ~subject_mapping.init)]_vars

\* a fetch with a token stored: one admin request and the mapping request
C25_Witness ==
  /\ last.op = "fetch"
  /\ last.exc = None
  /\ Len(last.reqs) = 1
  /\ last.reqs[1].url = "admin"
  /\ last.reqs[1].tok = csrf_token
  /\ last.fetched = 1

(***************************************************************************)
(* SpecThreads: threads of one process calling _load_subject_mapping(),    *)
(* as build_schedule does, their steps interleaved.  A thread's steps are  *)
(* the places where it reads or writes the global _SUBJECT_MAPPING: the    *)
(* test of line 26, the assignment that follows requests.get, and the read *)
(* of the return statement.                                                *)
(*   MaxThreads  the number of threads                                     *)
(***************************************************************************)
MaxThreads == 3

InitThreads ==
  /\ csrf_token = None
  /\ cookies = EmptyJar
  /\ subject_mapping = NoMapping
  /\ last = Call("init", None, <<>>, {}, NoHtml, None, NoRet, 0)
  /\ args = NoArgs
  /\ twin = NoTwin
  /\ threads = [pc |-> [t \in 1..MaxThreads |-> "idle"],
                seen |-> [t \in 1..MaxThreads |-> {}],
                sent |-> 0]

\* line 26: if _SUBJECT_MAPPING is not None
ThreadEnter(t) ==
  /\ threads.pc[t] = "idle"
  /\ threads' = [threads EXCEPT !.pc[t] = IF subject_mapping.init THEN "returning"
                                          ELSE "fetching"]
  /\ UNCHANGED <<csrf_token, cookies, subject_mapping, last, args, twin>>

\* lines 28-37: requests.get and the assignment of its outcome
ThreadFetch(t) ==
  /\ threads.pc[t] = "fetching"
  /\ \E rm \in MappingReplies :
       subject_mapping' = LoadSubjectMapping(NoMapping, rm)
  /\ threads' = [threads EXCEPT !.pc[t] = "returning", !.sent = @ + 1]
  /\ UNCHANGED <<csrf_token, cookies, last, args, twin>>

\* lines 27 and 38: return _SUBJECT_MAPPING
ThreadReturn(t) ==
  /\ threads.pc[t] = "returning"
  /\ threads' = [threads EXCEPT !.pc[t] = "done", !.seen[t] = subject_mapping.map]
  /\ UNCHANGED <<csrf_token, cookies, subject_mapping, last, args, twin>>

NextThreads ==
  \E t \in 1..MaxThreads : ThreadEnter(t) \/ ThreadFetch(t) \/ ThreadReturn(t)

SpecThreads == InitThreads /\ [][NextThreads]_vars

\* C26: however the threads' first calls interleave, at most one request for
\* the mapping is sent, and all calls that returned gave the same mapping.
C26_GuardedFirstUse ==
  /\ threads.sent <= 1
  /\ \A t, u \in DOMAIN threads.pc :
       (threads.pc[t] = "done" /\ threads.pc[u] = "done")
       => threads.seen[t] = threads.seen[u]

(***************************************************************************)
(* The embedded-variable extractor on the pages of SpecParse.              *)
(***************************************************************************)
\* the values the pages of SpecParse assign to the variable numbered n
AssignedValues(n) ==
  CASE n = 1 -> {TplVal(PageTpl), TplVal(<<Item(9, 0, "Dr; X")>>)}
    [] n = 2 -> {DaysVal(SampleDays), DaysVal(<<"Mon;day">>)}
    [] n = 3 -> {TtVal(SampleTt), TtVal(<<<<Key(1, 9, 1), <<Faculty("Dr; X")>>>>>>)}

\* the script holds the tokens a at its first assignment of the name
AssignsFirst(script, name, a) ==
  /\ FirstVar(script, name) # 0
  /\ FirstVar(script, name) + Len(a) - 1 <= Len(script)
  /\ SubSeq(script, FirstVar(script, name), FirstVar(script, name) + Len(a) - 1) = a

\* C27: on a fetched page, a variable assigned the JSON text of v and closed
\* by a semicolon is extracted as v, also when v holds a string with a
\* semicolon; a variable assigned nowhere gives the error naming it.
C27_RoundTrip ==
  (last.op = "fetch" /\ args.kind = "page")
  => \A n \in 1..3 :
       LET x == ExtractJsJson(last.html.script, VarNames[n]) IN
       /\ \A v \in AssignedValues(n) :
            AssignsFirst(last.html.script, VarNames[n], Assign(VarNames[n], v))
            => (x.ok /\ x.val = v)
       /\ Absent(last.html.script, VarNames[n])
            => (~x.ok /\ x.err = "Could not find JS variable" /\ x.var = VarNames[n])

(***************************************************************************)
(* SpecPages: parse_admin_html and fetch_timetable on well-formed admin    *)
(* pages, the three variables assigned JSON texts in either order, among   *)
(* them texts with a semicolon inside a string.                            *)
(***************************************************************************)
WellFormedPages ==
  {AdminPage(IF fwd THEN Assign(VarNames[1], TplVal(t)) \o Assign(VarNames[2], DaysVal(d))
                           \o Assign(VarNames[3], TtVal(j))
             ELSE Assign(VarNames[3], TtVal(j)) \o Assign(VarNames[2], DaysVal(d))
                    \o Assign(VarNames[1], TplVal(t))) :
     t \in Templates \cup {<<Item(9, 0, "Dr; X")>>},
     d \in DayLists \cup {<<"Mon;day">>},
     j \in Tables, fwd \in BOOLEAN}

InitPages ==
  /\ csrf_token = "h1"
  /\ cookies = [EmptyJar EXCEPT !.sess = TRUE]
  /\ subject_mapping \in Caches
  /\ last = Call("init", None, <<>>, {}, NoHtml, None, NoRet, 0)
  /\ args \in {[NoArgs EXCEPT !.kind = "page", !.html = h] : h \in WellFormedPages}
  /\ twin = NoTwin
  /\ threads = NoThreads

NextPages == ParseCall \/ FetchPageCall

SpecPages == InitPages /\ [][NextPages]_vars

\* C28: on a page whose three variables are present and JSON, either call
\* returns, and returns the meta and schedule the other returns for the same
\* page with the label mapping the call left.
C28_PathsAgree ==
  /\ last.op = "parse"
       => LET f == FetchTimetable(csrf_token, cookies, subject_mapping, NoReply,
                                  NoReply, NoReply, AdminReply(200, args.html),
                                  CHOOSE r \in MappingReplies : TRUE)
          IN last.exc = None /\ f.exc = None /\ f.ret = last.ret
  /\ last.op = "fetch"
       => LET q == ParseAdminHtml(args.html, subject_mapping,
                                  CHOOSE r \in MappingReplies : TRUE)
          IN last.exc = None /\ q.exc = None /\ q.ret = last.ret

(***************************************************************************)
(* Who stores the CSRF token, over Spec.                                   *)
(***************************************************************************)
\* C29 as stated: a login() that raises leaves csrf_token as it was, and a
\* client's token gets set by nothing but a login() that returned.
C29_OnlyLoginStores ==
  [][/\ (last'.op = "login" /\ last'.exc # None) => csrf_token' = csrf_token
     /\ (csrf_token = None /\ csrf_token' # None)
          => (last'.op = "login" /\ last'.exc = None)]_vars

\* C29 as amended: a login() that raises leaves csrf_token as it was; a
\* client's token gets set by a login() that returned, or, without any login,
\* by fetch_timetable preparing the context or by a caller storing what
\* _prepare_profile_context returned; a call that raises never sets it.
C29_FailedLoginKeepsToken ==
  [][/\ (last'.op = "login" /\ last'.exc # None) => csrf_token' = csrf_token
     /\ (csrf_token = None /\ csrf_token' # None)
          => /\ last'.op \in {"login", "fetch", "prepare"}
             /\ last'.op \in {"login", "prepare"} => last'.exc = None
             /\ last'.op = "fetch" => HasRequest(last'.reqs, "semesters")]_vars

\* a login that raised after its POST was sent, the token of an earlier login
\* still stored
C29_Witness ==
  /\ last.op = "login"
  /\ last.exc = "AuthenticationError"
  /\ HasRequest(last.reqs, "login")
  /\ Truthy(csrf_token)

(***************************************************************************)
(* app.py, compare_timetables.  The user1_meta and user2_meta entries of   *)
(* the result, copies of the two metas, are left out.                      *)
(***************************************************************************)
\* faulty variant: a slot free in one of the two timetables counts
EitherFree(cells1, cells2) == Len(cells1) = 0 \/ Len(cells2) = 0

\* is_free_1 and is_free_2
BothFree(cells1, cells2) == Len(cells1) = 0 /\ Len(cells2) = 0

\* the loop over slots1 from slot j on: the day's free_periods
RECURSIVE FreePeriods(_, _, _, _)
FreePeriods(slots1, slots2, j, out) ==
  IF j > Len(slots1) THEN out
  ELSE IF j <= Len(slots2) /\ BothFree(slots1[j].cells, slots2[j].cells)
  THEN FreePeriods(slots1, slots2, j + 1,
                   Append(out, [slot |-> slots1[j].slot, time |-> slots1[j].slot.label]))
  ELSE FreePeriods(slots1, slots2, j + 1, out)

\* the loop over days1: one entry per day of the first timetable
DayComparison(days1, days2, i) ==
  [day |-> days1[i].day,
   free_periods |-> IF i <= Len(days2)
                    THEN FreePeriods(days1[i].slots, days2[i].slots, 1, <<>>)
                    ELSE <<>>]

\* the flattening loop from entry i on
RECURSIVE FlattenFree(_, _, _)
FlattenFree(sc, i, out) ==
  IF i > Len(sc) THEN out
  ELSE FlattenFree(sc, i + 1,
         out \o [k \in DOMAIN sc[i].free_periods |->
                   [day |-> sc[i].day, time |-> sc[i].free_periods[k].time,
                    slot |-> sc[i].free_periods[k].slot]])

CompareTimetables(tt1, tt2) ==
  With([i \in DOMAIN tt1.schedule |-> DayComparison(tt1.schedule, tt2.schedule, i)],
    LAMBDA sc :
      [schedule_comparison |-> sc, common_free_periods |-> FlattenFree(sc, 1, <<>>)])

(***************************************************************************)
(* SpecCompare: compare_timetables on two timetables of up to MaxCmpDays   *)
(* days each; slot j of a day has order key j.                             *)
(***************************************************************************)
MaxCmpDays == 2

CmpSlot(j, busy) ==
  [slot |-> SlotMeta(Item(j, 0, None)),
   cells |-> IF busy THEN <<NewCell(Subject("LAB"), {})>> ELSE <<>>]

\* the slots of a day, by which of them are busy
CmpSlotLists ==
  {[j \in DOMAIN b |-> CmpSlot(j, b[j])] :
     b \in {<<>>, <<FALSE>>, <<TRUE>>, <<FALSE, TRUE>>, <<TRUE, FALSE>>,
            <<FALSE, FALSE>>}}

CmpTimetables ==
  {[meta |-> "Section A",
    schedule |-> [i \in DOMAIN sl |-> [day |-> DayNames[i], slots |-> sl[i]]]] :
     sl \in UNION {[1..n -> CmpSlotLists] : n \in 0..MaxCmpDays}}

InitCompare ==
  /\ csrf_token = None
  /\ cookies = EmptyJar
  /\ subject_mapping = NoMapping
  /\ last = Call("init", None, <<>>, {}, NoHtml, None, NoRet, 0)
  /\ args \in {[NoArgs EXCEPT !.kind = "pair", !.pair = <<a, b>>] :
                 a \in CmpTimetables, b \in CmpTimetables}
  /\ twin = NoTwin
  /\ threads = NoThreads

\* compare_timetables(tt1, tt2)
CompareCall ==
  /\ last.op = "init"
  /\ \E c \in {CompareTimetables(args.pair[1], args.pair[2])} :
       last' = [last EXCEPT !.op = "compare", !.cmp = c]
  /\ UNCHANGED <<csrf_token, cookies, subject_mapping, args, twin, threads>>

NextCompare == CompareCall

SpecCompare == InitCompare /\ [][NextCompare]_vars

\* both timetables have day i and slot j, and both slots hold no cell
FreeInBoth(i, j) ==
  /\ i \in DOMAIN args.pair[1].schedule
  /\ i \in DOMAIN args.pair[2].schedule
  /\ j \in DOMAIN args.pair[1].schedule[i].slots
  /\ j \in DOMAIN args.pair[2].schedule[i].slots
  /\ args.pair[1].schedule[i].slots[j].cells = <<>>
  /\ args.pair[2].schedule[i].slots[j].cells = <<>>

\* the index of the day a name stands for
DayIndex(name) == CHOOSE i \in DOMAIN DayNames : DayNames[i] = name

\* C30: the comparison has one entry per day of the first timetable, in
\* order; the entry of day i lists slot j, once and in slot order, exactly
\* when both timetables have day i and slot j and both slots are empty; and
\* common_free_periods holds these periods, each once, by day then by slot.
C30_FreePeriods ==
  last.op = "compare"
  => LET sc  == last.cmp.schedule_comparison
         all == last.cmp.common_free_periods
     IN
     /\ Len(sc) = Len(args.pair[1].schedule)
     /\ \A i \in DOMAIN sc :
          /\ sc[i].day = args.pair[1].schedule[i].day
          /\ \A j \in 1..3 :
               (\E k \in DOMAIN sc[i].free_periods :
                  sc[i].free_periods[k].slot.orderedBy = j) = FreeInBoth(i, j)
          /\ \A k, l \in DOMAIN sc[i].free_periods :
               k < l => sc[i].free_periods[k].slot.orderedBy
                          < sc[i].free_periods[l].slot.orderedBy
          /\ \A k \in DOMAIN sc[i].free_periods :
               sc[i].free_periods[k].time = sc[i].free_periods[k].slot.label
     /\ \A i \in 1..(MaxCmpDays + 1) : \A j \in 1..3 :
          (\E k \in DOMAIN all :
             DayIndex(all[k].day) = i /\ all[k].slot.orderedBy = j) = FreeInBoth(i, j)
     /\ \A k, l \in DOMAIN all :
          k < l => \/ DayIndex(all[k].day) < DayIndex(all[l].day)
                   \/ /\ all[k].day = all[l].day
                      /\ all[k].slot.orderedBy < all[l].slot.orderedBy
     /\ \A k \in DOMAIN all : all[k].time = all[k].slot.label

\* two days against one: a slot free in both on the first day, a slot free
\* only in the first timetable, and the second day without free period
C30_Witness ==
  /\ last.op = "compare"
  /\ Len(args.pair[1].schedule) = 2
  /\ Len(args.pair[2].schedule) = 1
  /\ Len(last.cmp.schedule_comparison) = 2
  /\ Len(last.cmp.common_free_periods) = 1
  /\ last.cmp.common_free_periods[1].slot.orderedBy = 2
  /\ args.pair[1].schedule[1].slots[1].cells = <<>>
  /\ args.pair[1].schedule[2].slots # <<>>
  /\ args.pair[1].schedule[2].slots[1].cells = <<>>

====
